---- MODULE Spec2Model ----
(***************************************************************************)
(* The maestro grading pipeline: Pipeline.add_step, Pipeline.execute_pending *)
(* with its worker generator _yield_pending, and the Source document store   *)
(* (collect / ref / update_steps).                                           *)
(*                                                                           *)
(* A step name is a sequence of dot-free components, so that the f-string    *)
(* f'{name}.{k}' is sequence concatenation: 'a.x' is <<"a", "x">>.           *)
(***************************************************************************)
EXTENDS Integers, Sequences, FiniteSets, TLC

VARIABLES
    steps,      \* Pipeline.steps: the ordered dict name -> Step, as a sequence of entries
    source,     \* Pipeline.source: the registered Source, or NoSource
    raises,     \* Pipeline.raises
    origin,     \* CSV.data: the table's rows, sorted by creation time (the latest row last)
    disk,       \* the Item Store: key -> what <dest> holds for it (<key>.fred and <key>/<file>)
    skip,       \* PRs._skip
    pc,         \* "idle" | "run" (inside execute_pending) | "done" (it has just returned or raised)
    nodes,      \* processing_nodes: the run's snapshot, a sequence of (ref, item)
    blacklist,  \* the run's blacklist
    pos,        \* the cursor of _yield_pending: how many (step, node) pairs its loops have visited
    pending,    \* what the generator has yielded and execute_pending has not yet persisted
    trace,      \* history: the process invocations of the current run, in order (ix: index of the node)
    log,        \* the log.error entries emitted by the current run, in order
    outcome,    \* how the last execute_pending call ended: "none", "returned" or the exception class
    runs,       \* history: number of execute_pending calls started
    adds,       \* history: number of add_step calls made
    nsucc,      \* history: (key, step name) -> number of successful process invocations (absent: 0)
    prevClean,  \* history: the previous run completed without failure and add_step was not called since
    prevFailed, \* history: the (ref, step name) pairs whose process failed in the previous run
    diskPrev,   \* history: the Item Store as the previous run left it
    calls,      \* history: the calls made on the Source, each with the store it found
    procs,      \* the processes that run update_steps on the store side by side
    standby,    \* the table and the store of the Source object that is not the pipeline's source
    prevLost,   \* history: the (ref, step) pairs whose result the previous run failed to persist
    fs          \* the files outside the Item Store: a step's reference directory and the item's path

vars == <<steps, source, raises, origin, disk, pc, nodes, blacklist, pos, pending,
          trace, log, outcome, runs, adds, nsucc, prevClean, prevFailed, diskPrev,
          skip, calls, procs, standby, prevLost, fs>>

---------------------------------------------------------------------------
(* Bounds of the model *)

MaxAdds == 3
MaxRuns == 3

Keys == {"A", "B"}
BaseNames == {<<"a">>, <<"b">>, <<"c">>}

---------------------------------------------------------------------------
(* Step objects *)

\* The result of a process that returns None.
None == 0

\* Pipeline.source before any Source is registered (the lazy attribute raises SOURCE_ERROR).
NoSource == [cls |-> "NoSource", pre |-> <<>>, post |-> <<>>]

\* A key without a <key>.fred file and without files. parsable: fred.load accepts
\* the file; fresh: its mtime is not before the PRs deadline; row: the creation time
\* of the row or pull request the document was written from; file: the same for
\* the files under <dest>/<key>/ (0: none).
NoDoc == [exists |-> FALSE, parsable |-> FALSE, fresh |-> FALSE, steps |-> <<>>,
          row |-> 0, file |-> 0]

\* A Step without pre/post steps whose process may succeed or raise.
Plain == [cls |-> "Plain", pre |-> <<>>, post |-> <<>>]

\* A Source: process is `pass` (returns None); pre_steps/post_steps are Step's defaults.
SourceStep == [cls |-> "Source", pre |-> <<>>, post |-> <<>>]

\* A Step subclass overriding pre_steps and post_steps: two pre-steps, two post-steps.
Hooked == [cls |-> "Hooked",
           pre |-> << <<"x", Plain>>, <<"y", Plain>> >>,
           post |-> << <<"z", Plain>>, <<"w", Plain>> >>]

\* A user's Step whose process changes the item in place: it sets a top-level
\* field and an entry of item['steps'] to Marked.
Mutating == [cls |-> "Mutating", pre |-> <<>>, post |-> <<>>]
Marked == 99

\* Grader(step, grade): its process computes a grade from the result of another
\* step, with a reduction function of the user's.
Grader(step) ==
    [cls |-> "Grader", pre |-> <<>>, post |-> <<>>, step |-> step, grade |-> "custom"]

\* Grader(step) with the default reduction PYTEST_GRADE_AS_TEST_RATIO.
RatioGrader(step) ==
    [cls |-> "Grader", pre |-> <<>>, post |-> <<>>, step |-> step, grade |-> "ratio"]

\* Competencies(step, field)
Competencies(step) ==
    [cls |-> "Competencies", pre |-> <<>>, post |-> <<>>, step |-> step, grade |-> "none"]

\* Pytest()
Pytest == [cls |-> "Pytest", pre |-> <<>>, post |-> <<>>]

\* The steps whose process begins by reading item['steps'][self.step].
Dependent(step) == step.cls \in {"Grader", "Competencies"}

IsSource(step) == step.cls = "Source"

\* Every name the registry can hold: the names passed to add_step and their
\* namespaced sub-step names.
SubNames == {"x", "y", "z", "w"}
AllNames == BaseNames \cup {b \o <<s>> : b \in BaseNames, s \in SubNames}

ExcClasses == {"KeyError", "ValueError"}

---------------------------------------------------------------------------
(* The ordered dict Pipeline.steps *)

HasKey(d, name) == \E i \in 1..Len(d) : d[i].name = name

IndexOf(d, name) == CHOOSE i \in 1..Len(d) : d[i].name = name

\* d[name] = step: an existing key keeps its position, a new key is appended.
DictSet(d, name, step) ==
    IF HasKey(d, name)
    THEN [i \in 1..Len(d) |-> IF d[i].name = name THEN [name |-> name, step |-> step] ELSE d[i]]
    ELSE Append(d, [name |-> name, step |-> step])

\* d.update((f'{name}.{k}', s) for k, s in pairs)
RECURSIVE DictUpdate(_, _, _)
DictUpdate(d, name, pairs) ==
    IF pairs = <<>> THEN d
    ELSE DictUpdate(DictSet(d, name \o <<Head(pairs)[1]>>, Head(pairs)[2]), name, Tail(pairs))

\* Mutant: a Source is made the source and kept out of the registry.
AddStepRegistryWithoutSource(d, name, step) ==
    IF IsSource(step) THEN d
    ELSE DictUpdate(DictSet(DictUpdate(d, name, step.pre), name, step), name, step.post)

\* The registry add_step(name, step) leaves.
AddStepRegistry(d, name, step) ==
    LET d1 == IF IsSource(step) THEN d ELSE DictUpdate(d, name, step.pre)
        d2 == DictSet(d1, name, step)
    IN  DictUpdate(d2, name, step.post)

\* Mutant: the first Source registered stays the pipeline's source.
AddStepSourceFirst(src, step) == IF IsSource(step) /\ src = NoSource THEN step ELSE src

AddStepSource(src, step) == IF IsSource(step) THEN step ELSE src

---------------------------------------------------------------------------
(* The Source's document store *)

\* The document CSV.collect writes for a row: data with steps={}.
NewDoc(row) == [exists |-> TRUE, parsable |-> TRUE, fresh |-> TRUE, steps |-> <<>>,
                row |-> row.val, file |-> 0]

StepNames(doc) == DOMAIN doc.steps

\* What fred.load gives for a document: the item (key and path are functions of
\* the key and are left out).
Item(doc) == [steps |-> doc.steps, row |-> doc.row]

\* How Source.ref(key) ends: open() raises FileNotFoundError, FREDDecodeError
\* becomes ValueError(f'invalid fred document for {key}').
RefError(store, key) ==
    IF ~store[key].exists THEN [cls |-> "FileNotFoundError", key |-> key]
    ELSE IF ~store[key].parsable THEN [cls |-> "ValueError", key |-> key]
    ELSE [cls |-> "none", key |-> key]

\* Source.ref(key): the persisted document.
Ref(store, key) == store[key]

\* Mutant: update_steps replaces the steps by data.
MergeReplace(old, data) == data

\* conf['steps'].update(data)
Merge(old, data) == data @@ old

\* Mutant: the document written holds the steps of data alone.
MergedDataOnly(conf, data) == [conf EXCEPT !.steps = data, !.fresh = TRUE]

\* The document update_steps dumps: the one it read with data merged into its steps.
Merged(conf, data) == [conf EXCEPT !.steps = Merge(conf.steps, data), !.fresh = TRUE]

\* Mutant: update_steps dumps the document with its row field marked.
UpdateStepsMarking(store, key, data) ==
    IF RefError(store, key).cls = "none"
    THEN [store EXCEPT ![key] = [Merged(Ref(store, key), data) EXCEPT !.row = 0]]
    ELSE store

\* Mutant: update_steps writes before it reads.
UpdateStepsBlind(store, key, data) ==
    [store EXCEPT ![key] = [NoDoc EXCEPT !.exists = TRUE, !.parsable = TRUE, !.fresh = TRUE,
                                         !.steps = data, !.file = store[key].file]]

\* Source.update_steps(key, data): read, merge data into steps, write back. When
\* ref raises nothing is written.
UpdateSteps(store, key, data) ==
    IF RefError(store, key).cls = "none"
    THEN [store EXCEPT ![key] = Merged(Ref(store, key), data)]
    ELSE store

\* CSV.save_files(key, files): a file that exists is left alone.
SaveFiles(store, key, row) ==
    IF store[key].file # 0 THEN store ELSE [store EXCEPT ![key].file = row.val]

\* Mutant: collect writes the document of every row it visits.
WriteIfMissingAlways(store, key, doc) ==
    [store EXCEPT ![key] = [doc EXCEPT !.file = store[key].file]]

\* Mutant: collect writes anew a document that has recorded steps.
WriteRecreating(store, key, doc) ==
    IF store[key].exists /\ store[key].steps = <<>> THEN store
    ELSE [store EXCEPT ![key] = [doc EXCEPT !.file = store[key].file]]

\* `except FileNotFoundError: fred.dump(data, fd)`: the document is written only
\* when the key has none.
WriteIfMissing(store, key, doc) ==
    IF store[key].exists THEN store
    ELSE [store EXCEPT ![key] = [doc EXCEPT !.file = store[key].file]]

\* The set `repeated` after a row is visited: the loop tests it and never adds to it.
RepeatedAfter(repeated, key) == repeated

\* The rows in the order collect visits them: self.data.iloc[::-1].
Reversed(rows) == [i \in 1..Len(rows) |-> rows[Len(rows) + 1 - i]]

\* The body of CSV.collect's loop over the rows left to visit; yielded: the pairs
\* yielded so far. fred.load of an unparsable document raises out of the generator.
RECURSIVE CsvCollectFrom(_, _, _, _)
CsvCollectFrom(store, rows, repeated, yielded) ==
    IF rows = <<>> THEN [store |-> store, nodes |-> yielded, err |-> "none"]
    ELSE LET row == Head(rows)
             key == row.id
             saved == SaveFiles(store, key, row)
             written == WriteIfMissing(saved, key, NewDoc(row))
         IN  IF key \in repeated
             THEN CsvCollectFrom(store, Tail(rows), repeated, yielded)
             ELSE IF saved[key].exists /\ ~saved[key].parsable
             THEN [store |-> saved, nodes |-> yielded, err |-> "FREDDecodeError"]
             ELSE CsvCollectFrom(written, Tail(rows), RepeatedAfter(repeated, key),
                                 Append(yielded, [ref |-> key, item |-> Item(written[key])]))

\* list(CSV.collect())
CsvCollect(store, rows) == CsvCollectFrom(store, Reversed(rows), {}, <<>>)

CollectStore(store, rows) == CsvCollect(store, rows).store

CollectNodes(store, rows) == CsvCollect(store, rows).nodes

---------------------------------------------------------------------------
(* Pipeline._yield_pending *)

\* Mutant: the loops are nested the other way round, nodes outside and steps inside.
VisitNodesOuter(p, nnodes) ==
    << ((p - 1) % ((Len(steps) * Len(nodes)) \div nnodes)) + 1,
       ((p - 1) \div ((Len(steps) * Len(nodes)) \div nnodes)) + 1 >>

\* The (step index, node index) pair the nested loops visit at their pos-th iteration:
\* outer loop over steps, inner loop over nodes.
Visit(p, nnodes) == << ((p - 1) \div nnodes) + 1, ((p - 1) % nnodes) + 1 >>

\* Mutant: the generator stops after the first step of the registry.
ExhaustedAfterFirstStep == Len(nodes) = 0 \/ pos > Len(nodes)

\* The nested loops have visited every (step, node) pair.
Exhausted == Len(nodes) = 0 \/ pos > Len(steps) * Len(nodes)

CurStep == steps[Visit(pos, Len(nodes))[1]]
CurNodeIx == Visit(pos, Len(nodes))[2]
CurNode == nodes[CurNodeIx]

\* Mutant: the skip test forgets the recorded steps.
SkipsBlacklistOnly(bl, ref, name, item) == ref \in bl

\* Mutant: the skip test forgets the blacklist.
SkipsRecordedOnly(bl, ref, name, item) == name \in StepNames(item)

\* `if ref in blacklist or step_name in item['steps']: continue`
Skips(bl, ref, name, item) == ref \in bl \/ name \in StepNames(item)

\* Mutant: the generator is drained before anything is persisted.
CanResumeEager(pend) == TRUE

\* Mutant: the generator runs one result ahead of what is persisted.
CanResumeOneAhead(pend) == Len(pend) <= 1

\* The generator is lazy: it resumes only when execute_pending asks for the next
\* triple, that is after update_steps of the previous one has returned.
CanResume(pend) == pend = <<>>

\* Mutant: a failure blacklists every key.
BlacklistAll(bl, ref) == Keys

\* Mutant: the failing ref is not blacklisted.
BlacklistForgotten(bl, ref) == bl

\* `blacklist.add(ref)`
BlacklistAfterFailure(bl, ref) == bl \cup {ref}

\* Mutant: the ref is blacklisted first, the entry is emitted after it.
LogAfterBlacklisting(lg, bl, ref, name, cls) ==
    Append(lg, [ref |-> ref, step |-> name, cls |-> cls, listed |-> ref \in bl \cup {ref}])

\* log.error(f'[{step_name}:{ref}] {cls} raised when processing task: {ex}'), the
\* first statement of the except branch: the entry carries the step name, the ref
\* and the exception class; listed tells whether the ref was in the blacklist
\* when the entry was emitted.
LogAfterFailure(lg, bl, ref, name, cls) ==
    Append(lg, [ref |-> ref, step |-> name, cls |-> cls, listed |-> ref \in bl])

\* Mutant: the error is swallowed whatever raises says.
PropagatesNever(r) == FALSE

\* `if self.raises: raise`
Propagates(r) == r

\* Mutant: the yield also runs for a failed process, handing on an error marker.
PendingWithFailure(pend, ref, name, cls) == Append(pend, <<ref, name, None>>)

\* What a failing process leaves to be persisted: nothing (the yield is in the else branch).
PendingAfterFailure(pend, ref, name, cls) == pend

\* Mutant: the blacklist object is shared by all runs.
SharedBlacklist(old) == old

\* execute_pending passes a new empty set as the blacklist of each run.
FreshBlacklist(old) == {}

\* History: how many times process has succeeded for (ref, name), in all runs.
NSucc(ref, name) == IF <<ref, name>> \in DOMAIN nsucc THEN nsucc[<<ref, name>>] ELSE 0

\* What `res = step.process(item)` can do. Source.process returns None. Any other
\* process is an opaque function of the item and of the outside world (it reads and
\* writes files, runs subprocesses): it returns a value, written here as a token
\* counting the values computed so far for that key and step (so that a value
\* computed again is told from the one computed before), or it raises.
\* Mutant: a Grader reads the other step's result with a default and does not raise
\* when it is absent.
ProcessOutcomesWithDefault(step) ==
    IF IsSource(step)
    THEN {[ok |-> TRUE, res |-> None, cls |-> "none", mut |-> FALSE]}
    ELSE {[ok |-> TRUE, res |-> NSucc(CurNode.ref, CurStep.name) + 1, cls |-> "none",
           mut |-> step.cls = "Mutating"]}
         \cup {[ok |-> FALSE, res |-> None, cls |-> c, mut |-> FALSE] : c \in ExcClasses}

\* Mutant: Competencies reads the other step's result with a default and does not
\* raise when it is absent.
ProcessOutcomesGraderOnly(step) ==
    IF IsSource(step)
    THEN {[ok |-> TRUE, res |-> None, cls |-> "none", mut |-> FALSE]}
    ELSE IF step.cls = "Grader" /\ step.step \notin StepNames(CurNode.item)
    THEN {[ok |-> FALSE, res |-> None, cls |-> "KeyError", mut |-> FALSE]}
    ELSE {[ok |-> TRUE, res |-> NSucc(CurNode.ref, CurStep.name) + 1, cls |-> "none",
           mut |-> step.cls = "Mutating"]}
         \cup {[ok |-> FALSE, res |-> None, cls |-> c, mut |-> FALSE] : c \in ExcClasses}

\* The JSON reports pytest may leave: the summary's counts, each present or not.
Reports ==
    {<<>>, [total |-> 0], [passed |-> 2, total |-> 2], [passed |-> 1, failed |-> 1],
     [failed |-> 2], [passed |-> 0, failed |-> 0, total |-> 0]}

\* dict.setdefault(key, default) on a summary.
SetDefault(summary, key, default) ==
    IF key \in DOMAIN summary THEN summary ELSE (key :> default) @@ summary

\* What Pytest.process returns for a report: passed and failed default to 0 and
\* total to failed + passed.
PytestResult(report) ==
    LET s1 == SetDefault(report, "passed", 0)
        s2 == SetDefault(s1, "failed", 0)
    IN  [summary |-> SetDefault(s2, "total", s2.failed + s2.passed), type |-> "Pytest"]

\* Mutant: the ratio of a result without tests is 0.
RatioOrZero(result) ==
    IF result.summary.total = 0 THEN [ok |-> TRUE, res |-> 0, cls |-> "none", mut |-> FALSE]
    ELSE [ok |-> TRUE, res |-> (100 * result.summary.passed) \div result.summary.total,
          cls |-> "none", mut |-> FALSE]

\* PYTEST_GRADE_AS_TEST_RATIO(r): r['summary']['passed'] / r['summary']['total'],
\* in hundredths; the division by zero raises.
Ratio(result) ==
    IF result.summary.total = 0
    THEN [ok |-> FALSE, res |-> None, cls |-> "ZeroDivisionError", mut |-> FALSE]
    ELSE [ok |-> TRUE, res |-> (100 * result.summary.passed) \div result.summary.total,
          cls |-> "none", mut |-> FALSE]

\* A Mutating process changes the item it is given in place before it returns; a
\* Grader's or a Competencies' process reads item['steps'][self.step] first, which
\* raises KeyError when that step is not recorded; a Grader with the default
\* reduction returns the ratio of the result it has read; Pytest returns the
\* summary of the report it finds.
ProcessOutcomes(step) ==
    IF IsSource(step)
    THEN {[ok |-> TRUE, res |-> None, cls |-> "none", mut |-> FALSE]}
    ELSE IF Dependent(step) /\ step.step \notin StepNames(CurNode.item)
    THEN {[ok |-> FALSE, res |-> None, cls |-> "KeyError", mut |-> FALSE]}
    ELSE IF Dependent(step) /\ step.grade = "ratio"
    THEN {Ratio(CurNode.item.steps[step.step])}
    ELSE IF step.cls = "Pytest"
    THEN {[ok |-> TRUE, res |-> PytestResult(r), cls |-> "none", mut |-> FALSE] : r \in Reports}
         \cup {[ok |-> FALSE, res |-> None, cls |-> c, mut |-> FALSE] : c \in ExcClasses}
    ELSE {[ok |-> TRUE, res |-> NSucc(CurNode.ref, CurStep.name) + 1, cls |-> "none",
           mut |-> step.cls = "Mutating"]}
         \cup {[ok |-> FALSE, res |-> None, cls |-> c, mut |-> FALSE] : c \in ExcClasses}

\* The in-memory item after process has returned: what process did to it, then
\* item['steps'][step_name] = res.
ItemAfter(item, name, o) ==
    LET m == IF o.mut THEN [steps |-> (<<"m">> :> Marked) @@ item.steps, row |-> Marked]
             ELSE item
    IN  [m EXCEPT !.steps = (name :> o.res) @@ @]

Failures(tr) == {<<tr[i].ref, tr[i].step>> : i \in {j \in 1..Len(tr) : ~tr[j].ok}}

---------------------------------------------------------------------------
(* Initial state: a new Pipeline over an empty destination directory *)

\* The tables read_csv can give: rows with an identifier and a creation time, sorted
\* by creation time. A table may hold several rows with the same identifier.
Row(id, val) == [id |-> id, val |-> val]
Origins == {<<Row("A", 1), Row("B", 2)>>,
            <<Row("B", 1), Row("A", 2)>>,
            <<Row("A", 1), Row("B", 2), Row("A", 3)>>}

Init ==
    /\ steps = <<>>
    /\ source = NoSource
    /\ raises \in BOOLEAN
    /\ origin \in Origins
    /\ disk = [k \in Keys |-> NoDoc]
    /\ pc = "idle"
    /\ nodes = <<>>
    /\ blacklist = {}
    /\ pos = 1
    /\ pending = <<>>
    /\ trace = <<>>
    /\ log = <<>>
    /\ outcome = "none"
    /\ runs = 0
    /\ adds = 0
    /\ nsucc = <<>>
    /\ prevClean = FALSE
    /\ prevFailed = {}
    /\ diskPrev = disk
    /\ skip = {}
    /\ calls = <<>>
    /\ procs = <<>>
    /\ standby = <<>>
    /\ prevLost = {}
    /\ fs = <<>>

---------------------------------------------------------------------------
(* Actions *)

\* Pipeline.add_step(name, step)
AddStep(name, step) ==
    /\ pc \in {"idle", "done"}
    /\ adds < MaxAdds
    /\ steps' = AddStepRegistry(steps, name, step)
    /\ source' = AddStepSource(source, step)
    /\ adds' = adds + 1
    /\ pc' = "idle"
    /\ UNCHANGED <<fs, skip, calls, procs, standby, prevLost>>
    /\ UNCHANGED <<raises, origin, disk, nodes, blacklist, pos, pending, trace, log,
                   outcome, runs, nsucc, prevClean, prevFailed, diskPrev>>

\* The result the run that has ended did not persist: update_steps raised out of
\* execute_pending's loop right after the run's last process call had returned.
Lost ==
    IF pc = "done" /\ outcome # "returned" /\ trace # <<>> /\ trace[Len(trace)].ok
    THEN {<<trace[Len(trace)].ref, trace[Len(trace)].step>>}
    ELSE {}

SOURCE_ERROR == [cls |-> "NotImplementedError", msg |-> "must initialize a source step"]

\* Mutant: without a source, execute_pending runs over no items and returns.
ExecNoSourceReturning ==
    /\ pc \in {"idle", "done"}
    /\ runs < MaxRuns
    /\ source = NoSource
    /\ pc' = "done"
    /\ outcome' = "returned"
    /\ runs' = runs + 1
    /\ nodes' = <<>>
    /\ trace' = <<>>
    /\ log' = <<>>
    /\ prevClean' = FALSE
    /\ prevFailed' = Failures(trace)
    /\ diskPrev' = disk
    /\ prevLost' = Lost
    /\ UNCHANGED <<fs, skip, calls, procs, standby>>
    /\ UNCHANGED <<steps, source, raises, origin, disk, blacklist, pos, pending,
                   adds, nsucc>>

\* execute_pending() with no Source registered: self.source raises SOURCE_ERROR.
ExecNoSource ==
    /\ pc \in {"idle", "done"}
    /\ runs < MaxRuns
    /\ source = NoSource
    /\ pc' = "done"
    /\ outcome' = SOURCE_ERROR.cls
    /\ runs' = runs + 1
    /\ nodes' = <<>>
    /\ trace' = <<>>
    /\ log' = <<>>
    /\ prevClean' = FALSE
    /\ prevFailed' = Failures(trace)
    /\ diskPrev' = disk
    /\ prevLost' = Lost
    /\ UNCHANGED <<fs, skip, calls, procs, standby>>
    /\ UNCHANGED <<steps, source, raises, origin, disk, blacklist, pos, pending,
                   adds, nsucc>>

\* execute_pending(), up to the first step of the generator:
\* processing_nodes = list(self.source.collect()); blacklist = set()
ExecStart ==
    /\ pc \in {"idle", "done"}
    /\ runs < MaxRuns
    /\ source # NoSource
    /\ LET c == CsvCollect(disk, origin)
       IN  /\ disk' = c.store
           /\ nodes' = c.nodes
           /\ pc' = IF c.err = "none" THEN "run" ELSE "done"
           /\ outcome' = c.err
    /\ runs' = runs + 1
    /\ blacklist' = FreshBlacklist(blacklist)
    /\ pos' = 1
    /\ pending' = <<>>
    /\ trace' = <<>>
    /\ log' = <<>>
    /\ prevClean' = (pc = "done" /\ outcome = "returned" /\ Failures(trace) = {})
    /\ prevFailed' = Failures(trace)
    /\ diskPrev' = disk
    /\ prevLost' = Lost
    /\ UNCHANGED <<fs, skip, calls, procs, standby>>
    /\ UNCHANGED <<steps, source, raises, origin, adds, nsucc>>

\* One iteration of the inner loop that hits `continue`.
Skip ==
    /\ pc = "run"
    /\ CanResume(pending)
    /\ ~Exhausted
    /\ Skips(blacklist, CurNode.ref, CurStep.name, CurNode.item)
    /\ pos' = pos + 1
    /\ UNCHANGED <<fs, skip, calls, procs, standby, prevLost>>
    /\ UNCHANGED <<steps, source, raises, origin, disk, pc, nodes, blacklist, pending,
                   trace, log, outcome, runs, adds, nsucc, prevClean, prevFailed, diskPrev>>

\* The else branch of the try: item['steps'][step_name] = res; yield ref, step_name, res
ProcessReturns(o) ==
    LET ref == CurNode.ref
        name == CurStep.name
    IN
    /\ nodes' = [nodes EXCEPT ![CurNodeIx].item = ItemAfter(@, name, o)]
    /\ pending' = Append(pending, <<ref, name, o.res>>)
    /\ trace' = Append(trace, [ref |-> ref, ix |-> CurNodeIx, step |-> name, ok |-> TRUE, res |-> o.res])
    /\ nsucc' = (<<ref, name>> :> NSucc(ref, name) + 1) @@ nsucc
    /\ pos' = pos + 1
    /\ UNCHANGED <<fs, skip, calls, procs, standby, prevLost>>
    /\ UNCHANGED <<steps, source, raises, origin, disk, pc, blacklist, log, outcome,
                   runs, adds, prevClean, prevFailed, diskPrev>>

\* One iteration of the inner loop in which process returns: the result is stored
\* in the in-memory item and the triple is yielded.
ProcessOk ==
    /\ pc = "run"
    /\ CanResume(pending)
    /\ ~Exhausted
    /\ ~Skips(blacklist, CurNode.ref, CurStep.name, CurNode.item)
    /\ \E o \in ProcessOutcomes(CurStep.step) : o.ok /\ ProcessReturns(o)

\* The except branch of the try: the error is logged, the ref is blacklisted, and
\* with raises the exception leaves execute_pending.
ProcessRaises(o) ==
    LET ref == CurNode.ref
        name == CurStep.name
    IN
    /\ log' = LogAfterFailure(log, blacklist, ref, name, o.cls)
    /\ blacklist' = BlacklistAfterFailure(blacklist, ref)
    /\ trace' = Append(trace, [ref |-> ref, ix |-> CurNodeIx, step |-> name, ok |-> FALSE, res |-> None])
    /\ pending' = PendingAfterFailure(pending, ref, name, o.cls)
    /\ IF Propagates(raises)
       THEN pc' = "done" /\ outcome' = o.cls /\ pos' = pos
       ELSE pc' = pc /\ outcome' = outcome /\ pos' = pos + 1
    /\ UNCHANGED <<fs, skip, calls, procs, standby, prevLost>>
    /\ UNCHANGED <<steps, source, raises, origin, disk, nodes, runs, adds, nsucc,
                   prevClean, prevFailed, diskPrev>>

ProcessFail ==
    /\ pc = "run"
    /\ CanResume(pending)
    /\ ~Exhausted
    /\ ~Skips(blacklist, CurNode.ref, CurStep.name, CurNode.item)
    /\ \E o \in ProcessOutcomes(CurStep.step) : ~o.ok /\ ProcessRaises(o)

\* Mutant: execute_pending catches the error of update_steps and goes on.
PersistCatching ==
    /\ pc = "run"
    /\ pending # <<>>
    /\ disk' = UpdateSteps(disk, Head(pending)[1], (Head(pending)[2] :> Head(pending)[3]))
    /\ pending' = Tail(pending)
    /\ UNCHANGED <<fs, skip, calls, procs, standby, prevLost>>
    /\ UNCHANGED <<steps, source, raises, origin, nodes, blacklist, pos, trace, pc, outcome,
                   log, runs, adds, nsucc, prevClean, prevFailed, diskPrev>>

\* The body of execute_pending's for loop: self.source.update_steps(ref, {name: out})
Persist ==
    /\ pc = "run"
    /\ pending # <<>>
    /\ LET t == Head(pending)
           err == RefError(disk, t[1]).cls
       IN  /\ disk' = UpdateSteps(disk, t[1], (t[2] :> t[3]))
           /\ pending' = IF err = "none" THEN Tail(pending) ELSE <<>>
           /\ pc' = IF err = "none" THEN pc ELSE "done"
           /\ outcome' = IF err = "none" THEN outcome ELSE err
    /\ UNCHANGED <<fs, skip, calls, procs, standby, prevLost>>
    /\ UNCHANGED <<steps, source, raises, origin, nodes, blacklist, pos, trace,
                   log, runs, adds, nsucc, prevClean, prevFailed, diskPrev>>

\* The generator is exhausted and execute_pending returns self.
Finish ==
    /\ pc = "run"
    /\ pending = <<>>
    /\ Exhausted
    /\ pc' = "done"
    /\ outcome' = "returned"
    /\ UNCHANGED <<fs, skip, calls, procs, standby, prevLost>>
    /\ UNCHANGED <<steps, source, raises, origin, disk, nodes, blacklist, pos, pending,
                   trace, log, runs, adds, nsucc, prevClean, prevFailed, diskPrev>>

StepObjs == {SourceStep, Plain}

Next ==
    \/ \E name \in BaseNames, step \in StepObjs : AddStep(name, step)
    \/ ExecNoSource
    \/ ExecStart
    \/ Skip
    \/ ProcessOk
    \/ ProcessFail
    \/ Persist
    \/ Finish

Spec == Init /\ [][Next]_vars

\* Runs over steps that change the item they process in place.
MutNames == {<<"a">>, <<"b">>}
MutObjs == {SourceStep, Mutating}

NextMut ==
    \/ \E name \in MutNames, step \in MutObjs : AddStep(name, step)
    \/ ExecNoSource
    \/ ExecStart
    \/ Skip
    \/ ProcessOk
    \/ ProcessFail
    \/ Persist
    \/ Finish

SpecMut == Init /\ [][NextMut]_vars

\* Runs during which the files of the Item Store are changed from outside, between
\* a process call and the update_steps call for its result: the document is made
\* unreadable (another writer holds it open) or is deleted; an unreadable document
\* becomes readable again between runs.
Damage(key) ==
    /\ pc = "run" /\ pending # <<>> /\ key = Head(pending)[1]
    /\ disk[key].exists /\ disk[key].parsable
    /\ disk' = [disk EXCEPT ![key].parsable = FALSE]
    /\ UNCHANGED <<fs, skip, calls, procs, standby, prevLost>>
    /\ UNCHANGED <<steps, source, raises, origin, pc, nodes, blacklist, pos, pending, trace,
                   log, outcome, runs, adds, nsucc, prevClean, prevFailed, diskPrev>>

Restore(key) ==
    /\ pc = "done"
    /\ disk[key].exists /\ ~disk[key].parsable
    /\ disk' = [disk EXCEPT ![key].parsable = TRUE]
    /\ UNCHANGED <<fs, skip, calls, procs, standby, prevLost>>
    /\ UNCHANGED <<steps, source, raises, origin, pc, nodes, blacklist, pos, pending, trace,
                   log, outcome, runs, adds, nsucc, prevClean, prevFailed, diskPrev>>

Delete(key) ==
    /\ pc = "run" /\ pending # <<>> /\ key = Head(pending)[1]
    /\ disk[key].exists /\ disk[key].parsable
    /\ disk' = [disk EXCEPT ![key] = NoDoc]
    /\ UNCHANGED <<fs, skip, calls, procs, standby, prevLost>>
    /\ UNCHANGED <<steps, source, raises, origin, pc, nodes, blacklist, pos, pending, trace,
                   log, outcome, runs, adds, nsucc, prevClean, prevFailed, diskPrev>>

\* The pipeline after the add_step calls of a sequence of (name, step) pairs.
RECURSIVE Built(_)
Built(calls_) ==
    IF calls_ = <<>> THEN [steps |-> <<>>, source |-> NoSource]
    ELSE LET b == Built(SubSeq(calls_, 1, Len(calls_) - 1))
             c == calls_[Len(calls_)]
         IN  [steps |-> AddStepRegistry(b.steps, c[1], c[2]),
              source |-> AddStepSource(b.source, c[2])]

\* A pipeline with a source and one step, before its first run.
InitFault ==
    /\ steps = Built(<< <<(<<"a">>), SourceStep>>, <<(<<"b">>), Plain>> >>).steps
    /\ source = Built(<< <<(<<"a">>), SourceStep>>, <<(<<"b">>), Plain>> >>).source
    /\ raises \in BOOLEAN
    /\ origin \in Origins
    /\ disk = [k \in Keys |-> NoDoc]
    /\ pc = "idle"
    /\ nodes = <<>>
    /\ blacklist = {}
    /\ pos = 1
    /\ pending = <<>>
    /\ trace = <<>>
    /\ log = <<>>
    /\ outcome = "none"
    /\ runs = 0
    /\ adds = 0
    /\ nsucc = <<>>
    /\ prevClean = FALSE
    /\ prevFailed = {}
    /\ diskPrev = disk
    /\ skip = {}
    /\ calls = <<>>
    /\ procs = <<>>
    /\ standby = <<>>
    /\ prevLost = {}
    /\ fs = <<>>

NextFault ==
    \/ ExecStart
    \/ Skip
    \/ ProcessOk
    \/ ProcessFail
    \/ Persist
    \/ Finish
    \/ \E key \in Keys : Damage(key)
    \/ \E key \in Keys : Restore(key)
    \/ \E key \in Keys : Delete(key)

SpecFault == InitFault /\ [][NextFault]_vars

\* Runs of a pipeline with a Grader or a Competencies of step 'c', registered
\* before 'c' or after it.
DepRegistries ==
    {<< <<(<<"a">>), SourceStep>>, <<(<<"b">>), Plain>>,
        <<(<<"g">>), Grader(<<"c">>)>>, <<(<<"c">>), Plain>> >>,
     << <<(<<"a">>), SourceStep>>, <<(<<"c">>), Plain>>, <<(<<"g">>), Grader(<<"c">>)>> >>,
     << <<(<<"a">>), SourceStep>>, <<(<<"g">>), Competencies(<<"c">>)>>,
        <<(<<"c">>), Plain>> >>}

InitDep ==
    /\ \E r \in DepRegistries : steps = Built(r).steps /\ source = Built(r).source
    /\ raises \in BOOLEAN
    /\ origin \in Origins
    /\ disk = [k \in Keys |-> NoDoc]
    /\ pc = "idle"
    /\ nodes = <<>>
    /\ blacklist = {}
    /\ pos = 1
    /\ pending = <<>>
    /\ trace = <<>>
    /\ log = <<>>
    /\ outcome = "none"
    /\ runs = 0
    /\ adds = 0
    /\ nsucc = <<>>
    /\ prevClean = FALSE
    /\ prevFailed = {}
    /\ diskPrev = disk
    /\ skip = {}
    /\ calls = <<>>
    /\ procs = <<>>
    /\ standby = <<>>
    /\ prevLost = {}
    /\ fs = <<>>

NextDep ==
    \/ ExecStart
    \/ Skip
    \/ ProcessOk
    \/ ProcessFail
    \/ Persist
    \/ Finish

SpecDep == InitDep /\ [][NextDep]_vars

\* execute_pending run again and again on a pipeline with a source and two steps.
\* The run counter stops at MaxRuns; the runs do not.
InitLive ==
    /\ steps = Built(<< <<(<<"a">>), SourceStep>>, <<(<<"b">>), Plain>>,
                        <<(<<"c">>), Plain>> >>).steps
    /\ source = SourceStep
    /\ raises \in BOOLEAN
    /\ origin \in Origins
    /\ disk = [k \in Keys |-> NoDoc]
    /\ pc = "idle"
    /\ nodes = <<>>
    /\ blacklist = {}
    /\ pos = 1
    /\ pending = <<>>
    /\ trace = <<>>
    /\ log = <<>>
    /\ outcome = "none"
    /\ runs = 0
    /\ adds = 0
    /\ nsucc = <<>>
    /\ prevClean = FALSE
    /\ prevFailed = {}
    /\ diskPrev = disk
    /\ skip = {}
    /\ calls = <<>>
    /\ procs = <<>>
    /\ standby = <<>>
    /\ prevLost = {}
    /\ fs = <<>>

\* execute_pending(), called once more.
ExecAgain ==
    /\ pc \in {"idle", "done"}
    /\ source # NoSource
    /\ LET c == CsvCollect(disk, origin)
       IN  /\ disk' = c.store
           /\ nodes' = c.nodes
           /\ pc' = IF c.err = "none" THEN "run" ELSE "done"
           /\ outcome' = c.err
    /\ runs' = IF runs < MaxRuns THEN runs + 1 ELSE runs
    /\ blacklist' = FreshBlacklist(blacklist)
    /\ pos' = 1
    /\ pending' = <<>>
    /\ trace' = <<>>
    /\ log' = <<>>
    /\ prevClean' = (pc = "done" /\ outcome = "returned" /\ Failures(trace) = {})
    /\ prevFailed' = Failures(trace)
    /\ diskPrev' = disk
    /\ prevLost' = Lost
    /\ UNCHANGED <<fs, skip, calls, procs, standby>>
    /\ UNCHANGED <<steps, source, raises, origin, adds, nsucc>>

NextLive ==
    \/ ExecAgain
    \/ Skip
    \/ ProcessOk
    \/ ProcessFail
    \/ Persist
    \/ Finish

\* The interpreter goes on with a run it has started, and the user starts the next.
SpecLive == InitLive /\ [][NextLive]_vars /\ WF_vars(NextLive)

\* A pipeline and two Source objects, each with its own table and destination
\* directory. origin and disk are the table and the store of the object that
\* self.source refers to (of the first one while there is none); standby holds
\* those of the other object.
SourceObj(n) == [cls |-> "Source", pre |-> <<>>, post |-> <<>>, dest |-> n]

SwapOrigin(n) == IF n = 1 THEN <<Row("A", 1)>> ELSE <<Row("B", 1), Row("A", 2)>>

SwapNames == {<<"a">>, <<"b">>}
SwapObjs == {SourceObj(1), SourceObj(2), Plain}

InitSwap ==
    /\ steps = <<>>
    /\ source = NoSource
    /\ raises \in BOOLEAN
    /\ origin = SwapOrigin(1)
    /\ disk = [k \in Keys |-> NoDoc]
    /\ standby = [id |-> 2, origin |-> SwapOrigin(2), disk |-> [k \in Keys |-> NoDoc]]
    /\ pc = "idle"
    /\ nodes = <<>>
    /\ blacklist = {}
    /\ pos = 1
    /\ pending = <<>>
    /\ trace = <<>>
    /\ log = <<>>
    /\ outcome = "none"
    /\ runs = 0
    /\ adds = 0
    /\ nsucc = <<>>
    /\ prevClean = FALSE
    /\ prevFailed = {}
    /\ diskPrev = disk
    /\ skip = {}
    /\ calls = <<>>
    /\ procs = <<>>
    /\ prevLost = {}
    /\ fs = <<>>

\* add_step(name, step) where step may be either Source object: self.source = step
\* makes the pipeline use that object's table and store from then on.
AddStepSwap(name, step) ==
    /\ pc \in {"idle", "done"}
    /\ adds < MaxAdds
    /\ steps' = AddStepRegistry(steps, name, step)
    /\ source' = AddStepSource(source, step)
    /\ adds' = adds + 1
    /\ pc' = "idle"
    /\ IF source' # NoSource /\ source'.dest = standby.id
       THEN /\ origin' = standby.origin
            /\ disk' = standby.disk
            /\ standby' = [id |-> 3 - standby.id, origin |-> origin, disk |-> disk]
       ELSE UNCHANGED <<origin, disk, standby>>
    /\ UNCHANGED <<fs, skip, calls, procs, prevLost>>
    /\ UNCHANGED <<raises, nodes, blacklist, pos, pending, trace, log,
                   outcome, runs, nsucc, prevClean, prevFailed, diskPrev>>

NextSwap ==
    \/ \E name \in SwapNames, step \in SwapObjs : AddStepSwap(name, step)
    \/ ExecNoSource
    \/ ExecStart
    \/ Skip
    \/ ProcessOk
    \/ ProcessFail
    \/ Persist
    \/ Finish

SpecSwap == InitSwap /\ [][NextSwap]_vars

\* Runs of a pipeline that tests each item with Pytest and grades the result with
\* the default reduction; another step is registered between the two.
InitGrade ==
    /\ steps = Built(<< <<(<<"a">>), SourceStep>>, <<(<<"t">>), Pytest>>,
                        <<(<<"b">>), Plain>>, <<(<<"g">>), RatioGrader(<<"t">>)>> >>).steps
    /\ source = SourceStep
    /\ raises \in BOOLEAN
    /\ origin \in Origins
    /\ disk = [k \in Keys |-> NoDoc]
    /\ pc = "idle"
    /\ nodes = <<>>
    /\ blacklist = {}
    /\ pos = 1
    /\ pending = <<>>
    /\ trace = <<>>
    /\ log = <<>>
    /\ outcome = "none"
    /\ runs = 0
    /\ adds = 0
    /\ nsucc = <<>>
    /\ prevClean = FALSE
    /\ prevFailed = {}
    /\ diskPrev = disk
    /\ skip = {}
    /\ calls = <<>>
    /\ procs = <<>>
    /\ standby = <<>>
    /\ prevLost = {}
    /\ fs = <<>>

NextGrade ==
    \/ ExecStart
    \/ Skip
    \/ ProcessOk
    \/ ProcessFail
    \/ Persist
    \/ Finish

SpecGrade == InitGrade /\ [][NextGrade]_vars

\* Registration alone: add_step calls over names that may collide with namespaced
\* sub-step names, and over steps that declare pre- and post-steps.
RegNames == BaseNames \cup {<<"a", "x">>}
RegObjs == {SourceStep, Plain, Hooked}

NextReg == \E name \in RegNames, step \in RegObjs : AddStep(name, step)

SpecReg == Init /\ [][NextReg]_vars

---------------------------------------------------------------------------
(* The Source's document store on its own: ref, update_steps and collect called  *)
(* on a destination directory that already holds documents, some of them not     *)
(* parsable.                                                                     *)

MaxCalls == 2

\* The steps mappings of the documents the directory holds at first.
StoredSteps == {<<>>, (<<"a">> :> 1), (<<"a">> :> 1) @@ (<<"b">> :> 1)}

\* What the directory may hold for a key at first; 9 marks what was written before.
StoredDocs ==
    {NoDoc}
    \cup {[exists |-> TRUE, parsable |-> FALSE, fresh |-> f, steps |-> <<>>, row |-> 9, file |-> 9] :
            f \in BOOLEAN}
    \cup {[exists |-> TRUE, parsable |-> TRUE, fresh |-> f, steps |-> st, row |-> 9, file |-> 9] :
            f \in BOOLEAN, st \in StoredSteps}

\* The data passed to update_steps.
Datas == {(<<"a">> :> 5), (<<"b">> :> 6) @@ (<<"c">> :> 7)}

\* The pull requests the repository lists: keys are unique (login and PR id).
Pulls == {<<Row("A", 1)>>, <<Row("B", 1), Row("A", 2)>>}

\* Mutant: the item of a new pull request has no steps entry.
NewPrDocWithoutSteps(pr) == [exists |-> TRUE, parsable |-> TRUE, fresh |-> TRUE,
                             steps |-> <<>>, row |-> pr.val, file |-> 0]

\* The item download_pull_requests yields and PRs.collect writes for a new key.
NewPrDoc(pr) == [exists |-> TRUE, parsable |-> TRUE, fresh |-> TRUE,
                 steps |-> (<<"download">> :> pr.val), row |-> pr.val, file |-> 0]

\* Mutant: _reload ignores the deadline and has every pull request downloaded.
ReloadAlways(store, key) == TRUE

\* PRs._reload(deadline, key): whether the pull request is downloaded.
Reload(store, key) == ~store[key].exists \/ ~store[key].fresh



\* PRs._skip after _reload(deadline, key).
SkipAfterReload(store, sk, key) == IF Reload(store, key) THEN sk ELSE sk \cup {key}

\* The first loop of PRs.collect over the pull requests left to visit: a pull
\* request that _reload refuses is left out, the files of the others are
\* downloaded unless they exist, and the document is written or loaded.
RECURSIVE PrsDownloadFrom(_, _, _, _)
PrsDownloadFrom(store, sk, pulls, yielded) ==
    IF pulls = <<>> THEN [store |-> store, skip |-> sk, nodes |-> yielded, err |-> "none"]
    ELSE LET pr == Head(pulls)
             key == pr.id
             saved == SaveFiles(store, key, pr)
             written == WriteIfMissing(saved, key, NewPrDoc(pr))
         IN  IF ~Reload(store, key)
             THEN PrsDownloadFrom(store, SkipAfterReload(store, sk, key), Tail(pulls), yielded)
             ELSE IF saved[key].exists /\ ~saved[key].parsable
             THEN [store |-> saved, skip |-> sk, nodes |-> yielded, err |-> "FREDDecodeError"]
             ELSE PrsDownloadFrom(written, sk, Tail(pulls),
                                  Append(yielded, [ref |-> key, item |-> Item(written[key])]))

\* The second loop of PRs.collect: `for key in self._skip: yield key, self.ref(key)`,
\* over the keys in the order the set gives them.
RECURSIVE PrsSkippedFrom(_, _, _)
PrsSkippedFrom(c, order, yielded) ==
    IF order = <<>> THEN [c EXCEPT !.nodes = yielded]
    ELSE LET key == Head(order)
         IN  IF RefError(c.store, key).cls # "none"
             THEN [c EXCEPT !.nodes = yielded, !.err = RefError(c.store, key).cls]
             ELSE PrsSkippedFrom(c, Tail(order),
                                 Append(yielded, [ref |-> key, item |-> Item(Ref(c.store, key))]))

\* The orders in which a set can be iterated.
Orders(S) == {o \in [1..Cardinality(S) -> S] : \A i, j \in DOMAIN o : o[i] = o[j] => i = j}

\* list(PRs.collect()), the set _skip being iterated in the given order.
PrsCollect(store, sk, pulls, order) ==
    LET c == PrsDownloadFrom(store, sk, pulls, <<>>)
    IN  IF c.err # "none" THEN c ELSE PrsSkippedFrom(c, order, c.nodes)

NoItem == Item(NoDoc)

\* A Source over a destination directory that holds documents from earlier use.
InitStore ==
    /\ steps = <<>>
    /\ source = NoSource
    /\ raises = FALSE
    /\ origin \in Origins
    /\ disk \in [Keys -> StoredDocs]
    /\ pc = "idle"
    /\ nodes = <<>>
    /\ blacklist = {}
    /\ pos = 1
    /\ pending = <<>>
    /\ trace = <<>>
    /\ log = <<>>
    /\ outcome = "none"
    /\ runs = 0
    /\ adds = 0
    /\ nsucc = <<>>
    /\ prevClean = FALSE
    /\ prevFailed = {}
    /\ diskPrev = disk
    /\ skip = {}
    /\ calls = <<>>
    /\ procs = <<>>
    /\ standby = <<>>
    /\ prevLost = {}
    /\ fs = <<>>

\* The record of a call: the store it found, how it ended, what it returned.
Call(op, key, data, err, ret) ==
    [op |-> op, key |-> key, data |-> data, before |-> disk, err |-> err, ret |-> ret]

pipelineVars == <<steps, source, raises, origin, pc, blacklist, pos, pending, trace, log,
                  runs, adds, nsucc, prevClean, prevFailed, diskPrev, procs, standby, prevLost, fs>>

\* source.ref(key)
RefCall(key) ==
    LET err == RefError(disk, key)
    IN
    /\ Len(calls) < MaxCalls
    /\ calls' = Append(calls, Call("ref", key, <<>>, err,
                                   IF err.cls = "none" THEN Item(Ref(disk, key)) ELSE NoItem))
    /\ outcome' = err.cls
    /\ UNCHANGED <<disk, skip, nodes>>
    /\ UNCHANGED pipelineVars

\* source.update_steps(key, data)
UpdateStepsCall(key, data) ==
    LET err == RefError(disk, key)
    IN
    /\ Len(calls) < MaxCalls
    /\ disk' = UpdateSteps(disk, key, data)
    /\ calls' = Append(calls, Call("update_steps", key, data, err,
                                   IF err.cls = "none" THEN Item(disk'[key]) ELSE NoItem))
    /\ outcome' = err.cls
    /\ UNCHANGED <<skip, nodes>>
    /\ UNCHANGED pipelineVars

\* list(csv.collect())
CsvCollectCall ==
    LET c == CsvCollect(disk, origin)
    IN
    /\ Len(calls) < MaxCalls
    /\ disk' = c.store
    /\ nodes' = c.nodes
    /\ outcome' = c.err
    /\ calls' = Append(calls, Call("csv", "", <<>>, [cls |-> c.err, key |-> ""], NoItem))
    /\ UNCHANGED skip
    /\ UNCHANGED pipelineVars

\* list(prs.collect())
PrsCollectCall(pulls) ==
    /\ Len(calls) < MaxCalls
    /\ \E order \in Orders(PrsDownloadFrom(disk, skip, pulls, <<>>).skip) :
          LET c == PrsCollect(disk, skip, pulls, order)
          IN  /\ disk' = c.store
              /\ skip' = c.skip
              /\ nodes' = c.nodes
              /\ outcome' = c.err
              /\ calls' = Append(calls, Call("prs", "", <<>>, [cls |-> c.err, key |-> ""], NoItem))
    /\ UNCHANGED pipelineVars

NextStore ==
    \/ \E key \in Keys : RefCall(key)
    \/ \E key \in Keys, data \in Datas : UpdateStepsCall(key, data)
    \/ CsvCollectCall
    \/ \E pulls \in Pulls : PrsCollectCall(pulls)

SpecStore == InitStore /\ [][NextStore]_vars

---------------------------------------------------------------------------
(* Pipeline.collect: the table built from the steps recorded in the documents.   *)

\* A recorded result: a number, or a mapping of field names to numbers
\* (isinstance(content, MutableMapping)).
Scalar(v) == [map |-> FALSE, val |-> v, fields |-> <<>>]
Mapping(f) == [map |-> TRUE, val |-> 0, fields |-> f]

\* The step names given as index and data, and the column names given as col_name.
TableNames == {<<"a">>, <<"b">>}
ColNames == {<<"grade">>, <<"a">>}

\* The results the data step may have recorded: a number, a mapping, a mapping with
\* a field named like the index step.
Contents == {Scalar(7),
             Mapping((<<"x">> :> Scalar(8)) @@ (<<"y">> :> Scalar(9))),
             Mapping((<<"a">> :> Scalar(5)) @@ (<<"x">> :> Scalar(8)))}

\* The documents of a key: none, one with step 'a' alone, one with 'a' and 'b'.
TableDocs(id) ==
    {NoDoc}
    \cup {[exists |-> TRUE, parsable |-> TRUE, fresh |-> TRUE, row |-> 9, file |-> 9,
           steps |-> (<<"a">> :> Scalar(id))]}
    \cup {[exists |-> TRUE, parsable |-> TRUE, fresh |-> TRUE, row |-> 9, file |-> 9,
           steps |-> (<<"a">> :> Scalar(id)) @@ (<<"b">> :> c)] : c \in Contents}

\* The school id recorded for a key.
IdOf(k) == IF k = "A" THEN 1 ELSE 2

\* The dict built for an item: the index entry, then the mapping's fields or the
\* value under col_name (a later assignment to the same key replaces the earlier).
RowOf(item, index, data, col_name) ==
    LET row == (index :> item.steps[index])
        content == item.steps[data]
    IN  IF content.map THEN content.fields @@ row ELSE (col_name :> content) @@ row

\* The loop of Pipeline.collect over the rows the Source has still to visit: the
\* generator source.collect() is advanced by one row, then the dict is built.
RECURSIVE TableFrom(_, _, _, _, _, _, _, _)
TableFrom(store, rows, repeated, yielded, dicts, index, data, col_name) ==
    IF rows = <<>> THEN [store |-> store, nodes |-> yielded, dicts |-> dicts, err |-> "none"]
    ELSE LET one == CsvCollectFrom(store, <<Head(rows)>>, repeated, <<>>)
         IN  IF one.err # "none"
             THEN [store |-> one.store, nodes |-> yielded, dicts |-> dicts, err |-> one.err]
             ELSE IF one.nodes = <<>>
             THEN TableFrom(store, Tail(rows), repeated, yielded, dicts, index, data, col_name)
             ELSE LET item == one.nodes[1].item
                  IN  IF index \notin DOMAIN item.steps \/ data \notin DOMAIN item.steps
                      THEN [store |-> one.store, nodes |-> yielded \o one.nodes,
                            dicts |-> dicts, err |-> "KeyError"]
                      ELSE TableFrom(one.store, Tail(rows),
                                     RepeatedAfter(repeated, Head(rows).id),
                                     yielded \o one.nodes,
                                     Append(dicts, RowOf(item, index, data, col_name)),
                                     index, data, col_name)

\* pd.DataFrame.from_records(dicts, index=index): each record gives a row, labelled
\* by its index entry; its other entries are the row's cells.
FromRecords(dicts, index) ==
    [i \in 1..Len(dicts) |->
        [index |-> dicts[i][index],
         cells |-> [n \in DOMAIN dicts[i] \ {index} |-> dicts[i][n]]]]

\* A pipeline whose CSV source has a destination directory in which steps 'a' and
\* 'b' were recorded for some keys.
InitTable ==
    /\ steps = <<>>
    /\ source = SourceStep
    /\ raises = FALSE
    /\ origin \in Origins
    /\ disk \in {d \in [Keys -> UNION {TableDocs(IdOf(k)) : k \in Keys}] :
                    \A k \in Keys : d[k] \in TableDocs(IdOf(k))}
    /\ pc = "idle"
    /\ nodes = <<>>
    /\ blacklist = {}
    /\ pos = 1
    /\ pending = <<>>
    /\ trace = <<>>
    /\ log = <<>>
    /\ outcome = "none"
    /\ runs = 0
    /\ adds = 0
    /\ nsucc = <<>>
    /\ prevClean = FALSE
    /\ prevFailed = {}
    /\ diskPrev = disk
    /\ skip = {}
    /\ calls = <<>>
    /\ procs = <<>>
    /\ standby = <<>>
    /\ prevLost = {}
    /\ fs = <<>>

\* pipeline.collect(index, data, col_name)
PipelineCollectCall(index, data, col_name) ==
    LET t == TableFrom(disk, Reversed(origin), {}, <<>>, <<>>, index, data, col_name)
    IN
    /\ Len(calls) < MaxCalls
    /\ disk' = t.store
    /\ nodes' = t.nodes
    /\ outcome' = t.err
    /\ calls' = Append(calls, [op |-> "table", index |-> index, data |-> data,
                               col_name |-> col_name, before |-> disk, err |-> t.err,
                               table |-> FromRecords(t.dicts, index)])
    /\ UNCHANGED skip
    /\ UNCHANGED pipelineVars

NextTable ==
    \E index \in TableNames, data \in TableNames, col_name \in ColNames :
        PipelineCollectCall(index, data, col_name)

SpecTable == InitTable /\ [][NextTable]_vars

---------------------------------------------------------------------------
(* IncludeFiles.process on an item's path. A file is its content: Absent, or a   *)
(* number that stands for its bytes.                                             *)

Absent == 0
FileNames == {"f", "g"}

\* IncludeFiles(path, files, overwrite): path is the reference directory fs.ref.
IncludeFiles(files, overwrite) ==
    [cls |-> "IncludeFiles", pre |-> <<>>, post |-> <<>>, files |-> files,
     overwrite |-> overwrite]

FileLists == {<<"f">>, <<"f", "g">>, <<"g", "f">>, <<"f", "f">>}

\* Mutant: an existing file is never replaced.
MustWriteIfMissing(overwrite, dest, src) == dest = Absent

\* Mutant: an existing file is replaced whether or not it differs.
MustWriteAlways(overwrite, dest, src) == dest = Absent \/ overwrite

\* Whether the loop body writes the file: it is missing, or overwrite is set and
\* its bytes differ from the reference's.
MustWrite(overwrite, dest, src) == dest = Absent \/ (overwrite /\ dest # src)

\* `log.warning('overwriting user file ...')` is reached for an existing file that
\* is replaced.
Warns(overwrite, dest, src) == dest # Absent /\ overwrite /\ dest # src

\* The loop of IncludeFiles.process over the files left: read_bytes of a missing
\* reference raises FileNotFoundError out of process.
RECURSIVE IncludeFrom(_, _, _, _, _, _)
IncludeFrom(ref, path, files, overwrite, written, warned) ==
    IF files = <<>>
    THEN [path |-> path, files |-> written, warned |-> warned, err |-> "none"]
    ELSE LET file == Head(files)
             src == ref[file]
         IN  IF src = Absent
             THEN [path |-> path, files |-> written, warned |-> warned,
                   err |-> "FileNotFoundError"]
             ELSE IF MustWrite(overwrite, path[file], src)
             THEN IncludeFrom(ref, [path EXCEPT ![file] = src], Tail(files), overwrite,
                              Append(written, file),
                              IF Warns(overwrite, path[file], src)
                              THEN Append(warned, file) ELSE warned)
             ELSE IncludeFrom(ref, path, Tail(files), overwrite, written, warned)

\* step.process(item) for an IncludeFiles step.
IncludeProcess(step, dirs) ==
    IncludeFrom(dirs.ref, dirs.path, step.files, step.overwrite, <<>>, <<>>)

\* One IncludeFiles step and one item whose path holds no file, the reference
\* file or a file with other bytes.
InitFiles ==
    /\ \E files \in FileLists, overwrite \in BOOLEAN :
          steps = <<[name |-> <<"a">>, step |-> IncludeFiles(files, overwrite)]>>
    /\ fs \in [ref : [FileNames -> {Absent, 1}], path : [FileNames -> {Absent, 1, 2}]]
    /\ nodes = <<[ref |-> "A", item |-> Item(NewDoc(Row("A", 1)))]>>
    /\ source = NoSource
    /\ raises = FALSE
    /\ origin = <<>>
    /\ disk = [k \in Keys |-> NoDoc]
    /\ pc = "idle"
    /\ blacklist = {}
    /\ pos = 1
    /\ pending = <<>>
    /\ trace = <<>>
    /\ log = <<>>
    /\ outcome = "none"
    /\ runs = 0
    /\ adds = 0
    /\ nsucc = <<>>
    /\ prevClean = FALSE
    /\ prevFailed = {}
    /\ diskPrev = disk
    /\ skip = {}
    /\ calls = <<>>
    /\ procs = <<>>
    /\ standby = <<>>
    /\ prevLost = {}

\* steps['a'].process(item), called directly.
IncludeCall ==
    LET r == IncludeProcess(steps[1].step, fs)
    IN
    /\ Len(calls) < MaxCalls
    /\ fs' = [fs EXCEPT !.path = r.path]
    /\ calls' = Append(calls, [op |-> "include", before |-> fs, err |-> r.err,
                               files |-> r.files, warned |-> r.warned])
    /\ outcome' = r.err
    /\ UNCHANGED <<disk, skip, nodes>>
    /\ UNCHANGED <<steps, source, raises, origin, pc, blacklist, pos, pending, trace, log,
                   runs, adds, nsucc, prevClean, prevFailed, diskPrev, procs, standby,
                   prevLost>>

NextFiles == IncludeCall

SpecFiles == InitFiles /\ [][NextFiles]_vars

---------------------------------------------------------------------------
(* SchoolId.process. A string is the sequence of its parts with "." as a part of *)
(* its own, so 'user.id' is <<"user", ".", "id">>. A value of an item is a leaf   *)
(* that holds a number or a dict, a set of <<key, value>> pairs. The designated  *)
(* file is looked up in the item's path, fs; a file that exists holds text that  *)
(* parses to a namespace, a set of <<field, value>> pairs, or does not parse.     *)

\* str.split('.'): the parts between the dots; '' splits into [''].
RECURSIVE SplitFrom(_, _, _)
SplitFrom(s, cur, acc) ==
    IF s = <<>> THEN Append(acc, cur)
    ELSE IF Head(s) = "." THEN SplitFrom(Tail(s), <<>>, Append(acc, cur))
    ELSE SplitFrom(Tail(s), Append(cur, Head(s)), acc)

\* str.endswith(suffix).
EndsWith(s, suffix) ==
    /\ Len(s) >= Len(suffix)
    /\ SubSeq(s, Len(s) - Len(suffix) + 1, Len(s)) = suffix

Leaf(v) == [leaf |-> TRUE, val |-> v, kids |-> {}]
Dict(kids) == [leaf |-> FALSE, val |-> 0, kids |-> kids]

Contains(pairs, k) == \E p \in pairs : p[1] = k
At(pairs, k) == (CHOOSE p \in pairs : p[1] = k)[2]

\* get_ref: item[p] for each part in turn; a missing key raises KeyError, and
\* indexing a number raises TypeError.
RECURSIVE GetRefFrom(_, _)
GetRefFrom(node, parts) ==
    IF parts = <<>> THEN [err |-> "none", node |-> node]
    ELSE IF node.leaf THEN [err |-> "TypeError", node |-> node]
    ELSE IF ~Contains(node.kids, Head(parts)) THEN [err |-> "KeyError", node |-> node]
    ELSE GetRefFrom(At(node.kids, Head(parts)), Tail(parts))

GetRef(step, item) == GetRefFrom(item, SplitFrom(step.ref, <<>>, <<>>))

\* SchoolId(filename, field, ref, db, transform): `db or {}` makes no table the
\* empty table, NoFile is the filename that `if self.filename` takes as unset,
\* and "None" stands for the field left unset.
NoFile == <<>>

SchoolId(filename, field, ref, db, transform) ==
    [cls |-> "SchoolId", pre |-> <<>>, post |-> <<>>, filename |-> filename,
     field |-> field, ref |-> ref, db |-> db, transform |-> transform]

\* sk.to_callable(transform or (lambda x: x)) applied to x.
Transform(t, x) == IF t = "identity" THEN x ELSE x + 100

NoText == [exists |-> FALSE, well |-> FALSE, ns |-> {}]
Text(ns) == [exists |-> TRUE, well |-> TRUE, ns |-> ns]
Garbage == [exists |-> TRUE, well |-> FALSE, ns |-> {}]

\* _parse_filename: the branch on the name's ending, the parse of the text, then
\* ns[self.field].
ParseFilename(step, name, text) ==
    LET bad == IF EndsWith(name, <<".", "py">>) THEN "SyntaxError"
               ELSE IF EndsWith(name, <<".", "json">>) THEN "JSONDecodeError"
               ELSE IF EndsWith(name, <<".", "fred">>) THEN "FredError"
               ELSE "ValueError"
    IN  IF bad = "ValueError" THEN [err |-> "ValueError", val |-> 0]
        ELSE IF ~text.well THEN [err |-> bad, val |-> 0]
        ELSE IF ~Contains(text.ns, step.field) THEN [err |-> "KeyError", val |-> 0]
        ELSE [err |-> "none", val |-> At(text.ns, step.field)]

\* Mutant: the lookup table is consulted before the file is parsed.
SchoolProcessTableFirst(step, item, dir) ==
    LET raw == GetRef(step, item)
        hit == raw.err = "none" /\ raw.node.leaf /\ Contains(step.db, raw.node.val)
        parsed == IF ~hit /\ step.filename # NoFile /\ dir[step.filename].exists
                  THEN ParseFilename(step, step.filename, dir[step.filename])
                  ELSE [err |-> "none", val |-> 0]
        used == step.filename # NoFile /\ dir[step.filename].exists
    IN  IF raw.err # "none" THEN [err |-> raw.err, val |-> 0]
        ELSE IF parsed.err # "none" THEN [err |-> parsed.err, val |-> 0]
        ELSE IF ~raw.node.leaf THEN [err |-> "TypeError", val |-> 0]
        ELSE [err |-> "none",
              val |-> Transform(step.transform,
                                IF hit THEN At(step.db, raw.node.val)
                                ELSE IF used THEN parsed.val ELSE raw.node.val)]

\* SchoolId.process(item): get_ref, then the designated file when a filename is
\* set and the file exists, then db.get(ref, data), which raises TypeError for a
\* dict as key, then transform.
SchoolProcess(step, item, dir) ==
    LET raw == GetRef(step, item)
        used == step.filename # NoFile /\ dir[step.filename].exists
        parsed == IF used THEN ParseFilename(step, step.filename, dir[step.filename])
                  ELSE [err |-> "none", val |-> 0]
    IN  IF raw.err # "none" THEN [err |-> raw.err, val |-> 0]
        ELSE IF parsed.err # "none" THEN [err |-> parsed.err, val |-> 0]
        ELSE IF ~raw.node.leaf THEN [err |-> "TypeError", val |-> 0]
        ELSE [err |-> "none",
              val |-> Transform(step.transform,
                                IF Contains(step.db, raw.node.val)
                                THEN At(step.db, raw.node.val)
                                ELSE IF used THEN parsed.val ELSE raw.node.val)]

SchoolFiles == {<<"s", ".", "py">>, <<"s", ".", "json">>, <<"s", ".", "fred">>,
                <<"s", ".", "txt">>, <<"py">>}
SchoolRefs == {<<"user", ".", "id">>, <<"id">>, <<"user">>,
               <<"user", ".", "id", ".", "x">>}
SchoolItems == {Dict({<<<<"user">>, Dict({<<<<"id">>, Leaf(1)>>})>>, <<<<"id">>, Leaf(2)>>}),
                Dict({<<<<"user">>, Dict({})>>})}
SchoolTables == {{}, {<<1, 50>>}, {<<7, 60>>, <<2, 70>>}}
SchoolTexts == {Text({<<"sid", 7>>}), Text({<<"x", 8>>}), Garbage}

\* One SchoolId step, one item, and an item path that holds at most one file.
InitSchool ==
    /\ \E filename \in SchoolFiles \cup {NoFile}, field \in {"sid", "None"},
          ref \in SchoolRefs, db \in SchoolTables, transform \in {"identity", "shift"} :
          steps = <<[name |-> <<"s">>,
                     step |-> SchoolId(filename, field, ref, db, transform)]>>
    /\ \E name \in SchoolFiles, text \in SchoolTexts \cup {NoText} :
          fs = [n \in SchoolFiles |-> IF n = name THEN text ELSE NoText]
    /\ \E item \in SchoolItems : nodes = <<[ref |-> "A", item |-> item]>>
    /\ source = NoSource
    /\ raises = FALSE
    /\ origin = <<>>
    /\ disk = [k \in Keys |-> NoDoc]
    /\ pc = "idle"
    /\ blacklist = {}
    /\ pos = 1
    /\ pending = <<>>
    /\ trace = <<>>
    /\ log = <<>>
    /\ outcome = "none"
    /\ runs = 0
    /\ adds = 0
    /\ nsucc = <<>>
    /\ prevClean = FALSE
    /\ prevFailed = {}
    /\ diskPrev = disk
    /\ skip = {}
    /\ calls = <<>>
    /\ procs = <<>>
    /\ standby = <<>>
    /\ prevLost = {}

\* steps['s'].process(item), called directly.
SchoolCall ==
    LET r == SchoolProcess(steps[1].step, nodes[1].item, fs)
    IN
    /\ Len(calls) < MaxCalls
    /\ calls' = Append(calls, [op |-> "school", err |-> r.err, val |-> r.val])
    /\ outcome' = r.err
    /\ UNCHANGED <<fs, disk, skip, nodes>>
    /\ UNCHANGED <<steps, source, raises, origin, pc, blacklist, pos, pending, trace, log,
                   runs, adds, nsucc, prevClean, prevFailed, diskPrev, procs, standby,
                   prevLost>>

NextSchool == SchoolCall

SpecSchool == InitSchool /\ [][NextSchool]_vars

---------------------------------------------------------------------------
(* Two processes that call update_steps on one destination directory side by     *)
(* side. A call is three steps: ref(key) reads the document; open(mode 'w')      *)
(* truncates the file; write and close put the merged document in its place.     *)

Procs == {1, 2}

\* A process that has not called yet.
IdleProc == [pc |-> "idle", key |-> "", data |-> <<>>, conf |-> NoDoc, err |-> "none", after |-> {}]

\* The file between open(mode 'w') and close: it exists and holds no document.
Truncated(doc) == [doc EXCEPT !.parsable = FALSE, !.steps = <<>>]

InitRace ==
    /\ steps = <<>>
    /\ source = NoSource
    /\ raises = FALSE
    /\ origin = <<>>
    /\ disk \in [Keys -> {d \in StoredDocs : d.exists /\ d.parsable /\ d.fresh}]
    /\ pc = "idle"
    /\ nodes = <<>>
    /\ blacklist = {}
    /\ pos = 1
    /\ pending = <<>>
    /\ trace = <<>>
    /\ log = <<>>
    /\ outcome = "none"
    /\ runs = 0
    /\ adds = 0
    /\ nsucc = <<>>
    /\ prevClean = FALSE
    /\ prevFailed = {}
    /\ diskPrev = disk
    /\ skip = {}
    /\ calls = <<>>
    /\ procs = [p \in Procs |-> IdleProc]
    /\ standby = <<>>
    /\ prevLost = {}
    /\ fs = <<>>

raceFrame == <<steps, source, raises, origin, pc, nodes, blacklist, pos, pending, trace, log,
               outcome, runs, adds, nsucc, prevClean, prevFailed, diskPrev, skip, calls,
               standby, prevLost, fs>>

\* conf = self.ref(key): the process reads the document, or the call ends in the
\* error ref raises. after: the processes whose call had ended by then.
RaceRead(p, key, data) ==
    LET err == RefError(disk, key).cls
    IN
    /\ procs[p].pc = "idle"
    /\ procs' = [procs EXCEPT ![p] =
                    [pc |-> IF err = "none" THEN "read" ELSE "done",
                     key |-> key, data |-> data, conf |-> Ref(disk, key), err |-> err,
                     after |-> {q \in Procs : procs[q].pc = "done"}]]
    /\ UNCHANGED disk
    /\ UNCHANGED raceFrame

\* conf['steps'].update(data); data = fred.dumps(conf); self._open_ref(key, 'w')
RaceOpen(p) ==
    /\ procs[p].pc = "read"
    /\ procs' = [procs EXCEPT ![p].pc = "opened", ![p].conf = Merged(procs[p].conf, procs[p].data)]
    /\ disk' = [disk EXCEPT ![procs[p].key] = Truncated(@)]
    /\ UNCHANGED raceFrame

\* fd.write(data) and the close of the file; return conf
RaceWrite(p) ==
    /\ procs[p].pc = "opened"
    /\ procs' = [procs EXCEPT ![p].pc = "done"]
    /\ disk' = [disk EXCEPT ![procs[p].key] = procs[p].conf]
    /\ UNCHANGED raceFrame

NextRace ==
    \/ \E p \in Procs, key \in Keys, data \in Datas : RaceRead(p, key, data)
    \/ \E p \in Procs : RaceOpen(p)
    \/ \E p \in Procs : RaceWrite(p)

SpecRace == InitRace /\ [][NextRace]_vars

---------------------------------------------------------------------------
(* Vocabulary of the properties *)

\* The (ref, step name) pairs on which process was invoked in the trace.
Invoked(tr) == {<<tr[i].ref, tr[i].step>> : i \in 1..Len(tr)}

Succeeded(tr) == {<<tr[i].ref, tr[i].step>> : i \in {j \in 1..Len(tr) : tr[j].ok}}

FailedRefs(tr) == {x[1] : x \in Failures(tr)}

\* This transition is a process invocation.
Invocation == Len(trace') = Len(trace) + 1

LastOf(tr) == tr[Len(tr)]

\* The position of a step name in the registry.
StepIx(name) == IndexOf(steps, name)

\* The positions of the snapshot that hold key k.
NodesOf(k) == {i \in 1..Len(nodes) : nodes[i].ref = k}

RowsOf(rows, k) == {i \in 1..Len(rows) : rows[i].id = k}

\* The i-th invocation of the run is the latest successful one for its ref and step.
LatestSuccess(i) ==
    /\ trace[i].ok
    /\ \A j \in (i + 1)..Len(trace) :
          ~(trace[j].ok /\ trace[j].ref = trace[i].ref /\ trace[j].step = trace[i].step)

\* Every result that succeeded in this run is in its persisted document (a result
\* computed again for the same ref and step stands for the earlier one).
AllPersisted ==
    \A i \in 1..Len(trace) :
        LatestSuccess(i) =>
            /\ disk[trace[i].ref].exists
            /\ trace[i].step \in StepNames(disk[trace[i].ref])
            /\ disk[trace[i].ref].steps[trace[i].step] = trace[i].res

RunEnded == pc = "done" /\ runs > 0

\* The result process returned for the pair f in this run is in the persisted document.
ResultRecorded(f) ==
    \E i \in 1..Len(trace) :
        /\ trace[i].ok /\ trace[i].ref = f[1] /\ trace[i].step = f[2]
        /\ f[2] \in StepNames(disk[f[1]])
        /\ disk[f[1]].steps[f[2]] = trace[i].res

---------------------------------------------------------------------------
(* C1: at-most-once. Over any number of execute_pending runs, process is never   *)
(* invoked for a (key, step) for which it has already succeeded, in the same run *)
(* or in a later one; so it succeeds at most once per (key, step).               *)

C1_AtMostOnce ==
    /\ [](\A k \in Keys, n \in AllNames : NSucc(k, n) <= 1)
    /\ [][Invocation => NSucc(LastOf(trace').ref, LastOf(trace').step) = 0]_vars

---------------------------------------------------------------------------
(* C2: idempotence. When execute_pending runs right after a run that completed   *)
(* with no failure (same source, same registry), it invokes no process and every *)
(* persisted document is what the first run left.                                *)

C2_Idempotent ==
    prevClean => (trace = <<>> /\ pending = <<>> /\ disk = diskPrev)

\* The second of two successive runs has ended, and the first one recorded a
\* computed result for every item.
C2_Witness ==
    /\ RunEnded /\ prevClean /\ outcome = "returned"
    /\ \A k \in Keys : \E n \in StepNames(disk[k]) : disk[k].steps[n] # None

---------------------------------------------------------------------------
(* C3: failure isolation. In a run with raises false, if process of step S fails *)
(* for item X, every step T registered after S is invoked in that run for every  *)
(* other item Y that has not failed and had not T recorded already.              *)

C3_FailureIsolation ==
    (RunEnded /\ ~raises /\ outcome = "returned") =>
        \A f \in Failures(trace) : \A t \in 1..Len(steps) : \A y \in 1..Len(nodes) :
            ( /\ t > StepIx(f[2])
              /\ nodes[y].ref # f[1]
              /\ nodes[y].ref \notin FailedRefs(trace)
              /\ steps[t].name \notin StepNames(diskPrev[nodes[y].ref]) )
            => <<nodes[y].ref, steps[t].name>> \in Invoked(trace)

\* risky fails for X and a later step has run for the other item.
C3_Witness ==
    /\ RunEnded /\ ~raises
    /\ \E f \in Failures(trace) : \E i \in 1..Len(trace) :
          /\ trace[i].ref # f[1]
          /\ trace[i].ok
          /\ StepIx(trace[i].step) > StepIx(f[2])

---------------------------------------------------------------------------
(* C4: blacklisting. Once process of some step has failed for X in a run, no     *)
(* process is invoked for X in the rest of that run and X's document is not      *)
(* written in the rest of that run.                                              *)

C4_Blacklisting ==
    /\ [](\A i, j \in 1..Len(trace) : (i < j /\ ~trace[i].ok) => trace[j].ref # trace[i].ref)
    /\ [][\A x \in Keys : (pc = "run" /\ x \in FailedRefs(trace)) => disk'[x] = disk[x]]_vars

\* X failed at a step, and a later step of the registry ran for another item while
\* X never got it.
C4_Witness ==
    /\ RunEnded /\ outcome = "returned"
    /\ \E i, j \in 1..Len(trace) :
          /\ i < j
          /\ ~trace[i].ok
          /\ StepIx(trace[j].step) > StepIx(trace[i].step)
          /\ trace[j].step \notin StepNames(disk[trace[i].ref])

---------------------------------------------------------------------------
(* C5: retry-ability. The blacklist and the failure are not carried over: if S   *)
(* failed for X in one run, the next run invokes S for X again, and when it then *)
(* succeeds the result is recorded and the steps registered after S are invoked  *)
(* for X in that run. (When the snapshot holds X twice, S may have failed on one *)
(* item of X and been recorded through the other: the retry is stated for an S   *)
(* that X's document still lacks.)                                               *)

---------------------------------------------------------------------------
(* C6: a failed process invocation for (X, S) leaves every persisted document    *)
(* unchanged: no steps[S] entry and no other change is written for X or for any  *)
(* other key because of the failure.                                             *)

C6_FailureWritesNothing ==
    /\ [][(Invocation /\ ~LastOf(trace').ok) => disk' = disk]_vars
    /\ [][(pc = "run" /\ disk' # disk) =>
              /\ trace # <<>> /\ LastOf(trace).ok
              /\ disk' = UpdateSteps(disk, LastOf(trace).ref,
                                      LastOf(trace).step :> LastOf(trace).res)]_vars
    /\ []((RunEnded /\ outcome # "NotImplementedError" /\ Succeeded(trace) = {})
            => disk = CollectStore(diskPrev, origin))

\* A run in which a process failed has gone on and ended.
C6_Witness ==
    /\ RunEnded /\ outcome = "returned"
    /\ Failures(trace) # {}
    /\ \E i \in 1..Len(trace) : ~trace[i].ok /\ i < Len(trace)

---------------------------------------------------------------------------
(* C7: persist-before-proceed. After process returns for (X, S), update_steps    *)
(* has completed and X's document holds steps[S] = result before the next        *)
(* process invocation of the run starts and before the run ends.                 *)

C7_PersistBeforeProceed ==
    /\ [][Invocation => AllPersisted]_vars
    /\ [](RunEnded => AllPersisted)

\* A process invocation has followed a successful one in the same run.
C7_Witness ==
    /\ pc = "run"
    /\ \E i \in 1..Len(trace) : trace[i].ok /\ i < Len(trace)

---------------------------------------------------------------------------
(* C8: execution order. Within one run the process invocations are ordered by    *)
(* (position of the step in the registry, position of the item in the snapshot)  *)
(* lexicographically.                                                            *)

C8_ExecutionOrder ==
    pc \in {"run", "done"} =>
        \A i, j \in 1..Len(trace) :
            i < j =>
                \/ StepIx(trace[i].step) < StepIx(trace[j].step)
                \/ /\ StepIx(trace[i].step) = StepIx(trace[j].step)
                   /\ trace[i].ix < trace[j].ix

\* Two steps have each been invoked on two items.
C8_Witness ==
    /\ pc = "done"
    /\ Len(trace) >= 4
    /\ \E i, j \in 1..Len(trace) :
          /\ trace[i].step # trace[j].step
          /\ trace[i].ref # trace[j].ref

---------------------------------------------------------------------------
(* C9: diagnostic mode. With raises true the first failing process invocation is *)
(* logged and its error surfaces out of execute_pending; no process is invoked   *)
(* after it in that run, and every earlier success of the run is persisted.      *)

C9_DiagnosticMode ==
    (raises /\ pc \in {"run", "done"}) =>
        \A i \in 1..Len(trace) :
            ~trace[i].ok =>
                /\ i = Len(trace)
                /\ pc = "done"
                /\ outcome \in ExcClasses
                /\ log = LogAfterFailure(<<>>, {}, trace[i].ref, trace[i].step, outcome)
                /\ pending = <<>>
                /\ AllPersisted

\* A run with raises was aborted by a failure after an earlier success.
C9_Witness ==
    /\ raises /\ RunEnded
    /\ outcome \in ExcClasses
    /\ Len(trace) >= 2
    /\ ~LastOf(trace).ok
    /\ \E i \in 1..Len(trace) : trace[i].ok /\ trace[i].res # None

---------------------------------------------------------------------------
(* C10: registration order. After any sequence of add_step calls, each           *)
(* non-Source step's pre-steps, named '<name>.<sub>', come immediately before    *)
(* the owner in declared order and its post-steps immediately after it in        *)
(* declared order, whatever was registered before.                               *)

PreInPlace(d, i) ==
    LET pre == d[i].step.pre
        k == Len(pre)
    IN  \A j \in 1..k :
            /\ i - k + j - 1 >= 1
            /\ d[i - k + j - 1].name = d[i].name \o <<pre[j][1]>>

PostInPlace(d, i) ==
    LET post == d[i].step.post
    IN  \A j \in 1..Len(post) :
            /\ i + j <= Len(d)
            /\ d[i + j].name = d[i].name \o <<post[j][1]>>

\* C10: every non-Source entry of the registry has its pre-steps right before it
\* and its post-steps right after it, in declared order.
C10_RegistrationOrder ==
    \A i \in 1..Len(steps) :
        ~IsSource(steps[i].step) => (PreInPlace(steps, i) /\ PostInPlace(steps, i))

---------------------------------------------------------------------------
(* C11: add_step(name, step) with a Source makes it the pipeline's source and    *)
(* does not insert it into the registry; hence execute_pending never invokes     *)
(* process on the Source and never records a steps entry under its name.         *)

\* The step of the registry that the i-th invocation of the run was made on.
StepOf(i) == steps[StepIx(trace[i].step)].step

---------------------------------------------------------------------------
(* C12: Source.update_steps(key, data) on an existing, parsable document writes  *)
(* and returns a document whose steps are the previous persisted steps           *)
(* overridden by data: every previous entry not named in data is kept, every     *)
(* entry of data is present; so a sequence of calls on one key accumulates all   *)
(* their entries.                                                                *)

\* The store the i-th call left.
After(i) == IF i = Len(calls) THEN disk ELSE calls[i + 1].before

UpdateCalls == {i \in 1..Len(calls) : calls[i].op = "update_steps" /\ calls[i].err.cls = "none"}

C12_UpdateStepsMerges ==
    /\ \A i \in UpdateCalls :
          LET c == calls[i]
              old == c.before[c.key].steps
              new == After(i)[c.key].steps
          IN  /\ DOMAIN new = DOMAIN old \cup DOMAIN c.data
              /\ \A n \in DOMAIN c.data : new[n] = c.data[n]
              /\ \A n \in DOMAIN old \ DOMAIN c.data : new[n] = old[n]
              /\ c.ret.steps = new
    /\ \A i \in UpdateCalls : DOMAIN calls[i].data \subseteq StepNames(disk[calls[i].key])

\* Two update_steps calls with different data were made on a key whose document
\* held an entry that the first one has overridden.
C12_Witness ==
    /\ Len(calls) = 2 /\ UpdateCalls = {1, 2}
    /\ calls[1].key = calls[2].key
    /\ calls[1].data # calls[2].data
    /\ <<"a">> \in DOMAIN calls[1].before[calls[1].key].steps
    /\ <<"b">> \in DOMAIN calls[1].before[calls[1].key].steps
    /\ calls[1].before[calls[1].key].steps[<<"a">>] # disk[calls[1].key].steps[<<"a">>]
    /\ StepNames(disk[calls[1].key]) = {<<"a">>, <<"b">>, <<"c">>}

---------------------------------------------------------------------------
(* C13: Source.collect, of PRs and of CSV, never overwrites or recreates a       *)
(* document that already exists: it leaves the document of every persisted key   *)
(* unchanged and yields an item whose steps are the persisted steps.             *)

CollectCalls == {i \in 1..Len(calls) : calls[i].op \in {"csv", "prs"}}

\* The <key>.fred file alone, without the files of the key's directory.
Fred(doc) == [doc EXCEPT !.file = 0]

C13_CollectKeepsDocuments ==
    \A i \in CollectCalls :
        /\ \A k \in Keys : calls[i].before[k].exists => Fred(After(i)[k]) = Fred(calls[i].before[k])
        /\ (i = Len(calls) /\ calls[i].err.cls = "none") =>
              \A n \in 1..Len(nodes) :
                  /\ calls[i].before[nodes[n].ref].exists =>
                        nodes[n].item.steps = calls[i].before[nodes[n].ref].steps
                  /\ nodes[n].item.steps = disk[nodes[n].ref].steps

\* A CSV collect and then a PRs collect have returned over a store that held a
\* document with recorded steps, and both have yielded that key with those steps.
C13_Witness ==
    /\ Len(calls) = 2
    /\ calls[1].op = "csv" /\ calls[1].err.cls = "none"
    /\ calls[2].op = "prs" /\ calls[2].err.cls = "none"
    /\ \E n \in 1..Len(nodes) :
          /\ \E r \in 1..Len(origin) : origin[r].id = nodes[n].ref
          /\ calls[1].before[nodes[n].ref].exists
          /\ calls[1].before[nodes[n].ref].steps # <<>>
          /\ nodes[n].item.steps = calls[1].before[nodes[n].ref].steps

---------------------------------------------------------------------------
(* C14: done is terminal. Once steps[S] is present in the persisted document of  *)
(* key X, it stays present with the same value in every later state reached by   *)
(* execute_pending and collect calls; no recorded result is removed or changed   *)
(* and no document is deleted.                                                   *)

C14_DoneIsTerminal ==
    [][\A k \in Keys :
          /\ disk[k].exists => disk'[k].exists
          /\ \A n \in StepNames(disk[k]) :
                n \in StepNames(disk'[k]) /\ disk'[k].steps[n] = disk[k].steps[n]]_vars

---------------------------------------------------------------------------
(* C15: CSV.collect deduplicates by identifier. When the table holds several     *)
(* rows with the same identifier, one collect call yields exactly one (key,      *)
(* item) pair for that identifier, and the document and the files created for it *)
(* come from the most recent row.                                                *)

\* The creation time of the latest row of identifier k (the table is sorted).
MostRecent(rows, k) == rows[CHOOSE i \in RowsOf(rows, k) : \A j \in RowsOf(rows, k) : j <= i].val

\* C15: while a run works on its snapshot, each identifier of the table has exactly
\* one pair in it, and its document and files are those of its most recent row.
C15_Deduplicates ==
    pc = "run" =>
        \A k \in Keys :
            RowsOf(origin, k) # {} =>
                /\ Cardinality(NodesOf(k)) = 1
                /\ disk[k].exists /\ disk[k].row = MostRecent(origin, k)
                /\ disk[k].file = MostRecent(origin, k)

---------------------------------------------------------------------------
(* C16: Pipeline.collect(index, data) returns a table with exactly one row per   *)
(* item of the Source's item set, indexed by the item's steps[index] value; a    *)
(* non-mapping steps[data] value is placed in the single column col_name and     *)
(* adds no other column, a mapping value is spread as one column per field.      *)

\* The last call was Pipeline.collect and it has returned a table.
TableReturned ==
    /\ calls # <<>>
    /\ LastOf(calls).op = "table"
    /\ LastOf(calls).err = "none"

\* C16: the table has one row for each pair the Source has yielded and the Source
\* has yielded each identifier of its origin once; the row of an item is labelled
\* by its steps[index] and holds the fields of its steps[data], or steps[data]
\* itself under col_name alone.
C16_TableOfItems ==
    TableReturned =>
        LET c == LastOf(calls)
            t == c.table
        IN  /\ Len(t) = Len(nodes)
            /\ \A k \in Keys : RowsOf(origin, k) # {} => Cardinality(NodesOf(k)) = 1
            /\ \A r \in 1..Len(t) :
                  LET content == nodes[r].item.steps[c.data]
                  IN  /\ t[r].index = nodes[r].item.steps[c.index]
                      /\ t[r].cells = IF content.map THEN content.fields
                                      ELSE (c.col_name :> content)

---------------------------------------------------------------------------
(* C17: Source.ref(key) returns the persisted document of key and fails with a   *)
(* ValueError naming the key when the document is unparsable; update_steps on an *)
(* unparsable document fails the same way and leaves the stored document         *)
(* unchanged.                                                                    *)

Unparsable(doc) == doc.exists /\ ~doc.parsable

C17_DecodeError ==
    \A i \in 1..Len(calls) :
        LET c == calls[i]
        IN  /\ c.op = "ref" =>
                  /\ After(i) = c.before
                  /\ (c.before[c.key].exists /\ c.before[c.key].parsable) =>
                        (c.err.cls = "none" /\ c.ret = Item(c.before[c.key]))
                  /\ Unparsable(c.before[c.key]) =>
                        c.err = [cls |-> "ValueError", key |-> c.key]
            /\ (c.op = "update_steps" /\ Unparsable(c.before[c.key])) =>
                  /\ c.err = [cls |-> "ValueError", key |-> c.key]
                  /\ After(i) = c.before

\* ref and then update_steps were called on a key whose document is unparsable,
\* and both have raised.
C17_Witness ==
    /\ Len(calls) = 2
    /\ calls[1].op = "ref" /\ calls[2].op = "update_steps"
    /\ calls[1].key = calls[2].key
    /\ Unparsable(calls[1].before[calls[1].key])
    /\ calls[1].err.cls = "ValueError" /\ calls[2].err.cls = "ValueError"
    /\ outcome = "ValueError"

---------------------------------------------------------------------------
(* C18: in-memory/on-disk consistency. At every point where execute_pending      *)
(* invokes process on an item, the step names of the in-memory item's steps are  *)
(* exactly the step names of the persisted document of the item's key.           *)

C18_MemoryMatchesDisk ==
    [][Invocation => StepNames(CurNode.item) = StepNames(disk[CurNode.ref])]_vars

---------------------------------------------------------------------------
(* C19: dependency availability. Whenever execute_pending invokes process of     *)
(* step T on an item, the item's in-memory steps already hold an entry for every *)
(* step registered before T.                                                     *)

C19_DependenciesAvailable ==
    [][Invocation =>
          \A t \in 1..Len(steps) :
              t < StepIx(CurStep.name) => steps[t].name \in StepNames(CurNode.item)]_vars

\* A step registered second has been invoked on an item that holds the result the
\* first step computed for it in this run.
C19_Witness ==
    /\ pc = "run"
    /\ \E i, j \in 1..Len(trace) :
          /\ i < j
          /\ trace[i].ix = trace[j].ix
          /\ trace[i].ok
          /\ StepIx(trace[i].step) < StepIx(trace[j].step)
          /\ trace[i].step \in StepNames(nodes[trace[j].ix].item)
          /\ nodes[trace[j].ix].item.steps[trace[i].step] = trace[i].res

---------------------------------------------------------------------------
(* C20: after a run of execute_pending completes in which no process invocation  *)
(* failed, the persisted document of every item in the run's snapshot contains a *)
(* steps entry for every step name in the registry.                              *)

C20_CompleteAfterCleanRun ==
    (RunEnded /\ outcome = "returned" /\ Failures(trace) = {}) =>
        \A n \in 1..Len(nodes), t \in 1..Len(steps) :
            steps[t].name \in StepNames(disk[nodes[n].ref])

\* A run over a registry of three entries has completed without failure, having
\* computed results in this run, and its snapshot is not empty.
C20_Witness ==
    /\ RunEnded /\ outcome = "returned" /\ Failures(trace) = {}
    /\ Len(steps) = 3 /\ Len(nodes) >= 2
    /\ trace # <<>>
    /\ \A n \in 1..Len(nodes) : StepNames(disk[nodes[n].ref]) = {steps[t].name : t \in 1..Len(steps)}

---------------------------------------------------------------------------
(* C21: partial progress without rollback. When step S fails for item X in a     *)
(* run, the results of the steps that succeeded for X earlier in that same run   *)
(* stay in X's persisted document; the failure rolls nothing back.               *)

\* The i-th invocation of the run succeeded and is the latest success for its ref
\* and step among the invocations before the j-th.
LatestSuccessBefore(i, j) ==
    /\ i < j /\ trace[i].ok
    /\ \A m \in (i + 1)..(j - 1) :
          ~(trace[m].ok /\ trace[m].ref = trace[i].ref /\ trace[m].step = trace[i].step)

C21_NoRollback ==
    /\ [](pc \in {"run", "done"} =>
            \A j \in 1..Len(trace) :
                ~trace[j].ok =>
                    \A i \in 1..Len(trace) :
                        (LatestSuccessBefore(i, j) /\ trace[i].ref = trace[j].ref) =>
                            /\ trace[i].step \in StepNames(disk[trace[i].ref])
                            /\ disk[trace[i].ref].steps[trace[i].step] = trace[i].res)
    /\ [][(Invocation /\ ~LastOf(trace').ok) => disk'[LastOf(trace').ref] = disk[LastOf(trace').ref]]_vars

\* A step has failed for an item for which an earlier step had succeeded in the
\* same run, and the run has ended with the earlier result in the document.
C21_Witness ==
    /\ RunEnded
    /\ \E i, j \in 1..Len(trace) :
          /\ i < j /\ trace[i].ok /\ ~trace[j].ok
          /\ trace[i].ref = trace[j].ref
          /\ trace[i].step # trace[j].step
          /\ trace[i].res # None
          /\ disk[trace[i].ref].steps[trace[i].step] = trace[i].res

---------------------------------------------------------------------------
(* C22: every failing process invocation produces exactly one error log entry    *)
(* carrying the item key, the step name and the exception class, emitted before  *)
(* the key is blacklisted and before any re-raise, in both raises modes.         *)

\* The failing invocations of the run, in order.
FailedInvocations == SelectSeq(trace, LAMBDA e : ~e.ok)

C22_OneLogEntryPerFailure ==
    /\ [](/\ Len(log) = Len(FailedInvocations)
          /\ \A i \in 1..Len(log) :
                /\ log[i].ref = FailedInvocations[i].ref
                /\ log[i].step = FailedInvocations[i].step
                /\ log[i].cls \in ExcClasses
                /\ ~log[i].listed
                /\ (pc \in {"run", "done"} /\ runs > 0) => log[i].ref \in blacklist)
    /\ [][(Invocation /\ ~LastOf(trace').ok) =>
              /\ Len(log') = Len(log) + 1
              /\ LastOf(log').ref = CurNode.ref /\ LastOf(log').step = CurStep.name
              /\ (raises => (pc' = "done" /\ outcome' = LastOf(log').cls))
              /\ (~raises => pc' = "run")]_vars

\* A run with raises false has ended with two failures logged, of different
\* exception classes.
C22_Witness ==
    /\ RunEnded /\ ~raises
    /\ Len(log) = 2
    /\ log[1].cls # log[2].cls
    /\ log[1].ref # log[2].ref

---------------------------------------------------------------------------
(* C23: lost update under concurrent writers. When two processes run             *)
(* update_steps on the same key with different step names and their              *)
(* read-merge-write sequences interleave, a state is reachable in which the      *)
(* final document lacks one of the two results; when the two calls do not        *)
(* interleave both results are present.                                          *)

\* Both calls have returned, on the same key, with data of different step names.
BothReturned ==
    /\ \A p \in Procs : procs[p].pc = "done" /\ procs[p].err = "none"
    /\ procs[1].key = procs[2].key
    /\ DOMAIN procs[1].data \cap DOMAIN procs[2].data = {}

\* The call of p began after the call of q had ended.
Serial(p, q) == q \in procs[p].after

HoldsResult(doc, data) == \A n \in DOMAIN data : n \in StepNames(doc) /\ doc.steps[n] = data[n]

\* C23, second half: two calls that did not interleave leave both results.
C23_SerialKeepsBoth ==
    (BothReturned /\ (Serial(1, 2) \/ Serial(2, 1))) =>
        \A p \in Procs : HoldsResult(disk[procs[1].key], procs[p].data)

\* C23, first half: both calls have returned, they interleaved, and the document
\* lacks the result of one of them.
C23_Witness ==
    /\ BothReturned
    /\ ~Serial(1, 2) /\ ~Serial(2, 1)
    /\ \E p \in Procs : ~HoldsResult(disk[procs[1].key], procs[p].data)
    /\ \E p \in Procs : HoldsResult(disk[procs[1].key], procs[p].data)

---------------------------------------------------------------------------
(* C24: only write path. Once a document exists, execute_pending changes it only *)
(* through Source.update_steps, and each such call changes nothing but the steps *)
(* entries named in its argument: the document's other top-level fields and the  *)
(* documents of all other keys stay unchanged, also when process mutated the     *)
(* in-memory item.                                                               *)

\* This transition is the update_steps call of execute_pending's loop.
Persisting == pc = "run" /\ pending # <<>> /\ pending' = Tail(pending)

\* The document with the steps entry of name left out.
WithoutStep(doc, name) ==
    [doc EXCEPT !.steps = [n \in DOMAIN doc.steps \ {name} |-> doc.steps[n]], !.fresh = TRUE]

C24_OnlyWritePath ==
    [][\A k \in Keys :
          (disk[k].exists /\ Fred(disk'[k]) # Fred(disk[k])) =>
              /\ Persisting
              /\ k = Head(pending)[1]
              /\ WithoutStep(Fred(disk'[k]), Head(pending)[2])
                    = WithoutStep(Fred(disk[k]), Head(pending)[2])
              /\ disk'[k].steps[Head(pending)[2]] = Head(pending)[3]]_vars

\* A process has changed the item in place, its result is persisted, and the
\* document has the result and none of the changes.
C24_Witness ==
    /\ pc = "run" /\ pending = <<>>
    /\ \E i \in 1..Len(trace) :
          /\ trace[i].ok /\ trace[i].res # None
          /\ nodes[trace[i].ix].item.row = Marked
          /\ <<"m">> \in StepNames(nodes[trace[i].ix].item)
          /\ disk[trace[i].ref].row # Marked
          /\ <<"m">> \notin StepNames(disk[trace[i].ref])
          /\ trace[i].step \in StepNames(disk[trace[i].ref])
          /\ disk[trace[i].ref].steps[trace[i].step] = trace[i].res

---------------------------------------------------------------------------
(* C25: an error raised by Source.update_steps while execute_pending persists a  *)
(* successful result is not caught: it aborts the run whatever the raises        *)
(* setting, without a log entry or blacklisting, no further process is invoked,  *)
(* and the result stays unrecorded on disk so the next run invokes that step for *)
(* that item again.                                                              *)

\* The update_steps call execute_pending is about to make raises.
PersistRaises ==
    pc = "run" /\ pending # <<>> /\ RefError(disk, Head(pending)[1]).cls # "none"

\* C25 as stated, its last part: the run after one that lost a result has invoked
\* that step for that item by the time it ends.
C25_NextRunInvokesAgain ==
    RunEnded => \A l \in prevLost : l \in Invoked(trace)

\* C25 as amended: the error ends the run with nothing written, logged or
\* blacklisted; no process is invoked before the next run; the document has no
\* entry for the step (when the run invoked it once for the item); and a next run
\* that returns has invoked the step for the item, or the item has failed in it,
\* when the document had no entry for the step as that run started.
C25_PersistErrorAborts ==
    /\ [][(PersistRaises /\ pending' # pending) =>
              /\ pc' = "done"
              /\ outcome' = RefError(disk, Head(pending)[1]).cls
              /\ disk' = disk /\ log' = log /\ blacklist' = blacklist /\ trace' = trace
              /\ Lost' = {<<Head(pending)[1], Head(pending)[2]>>}]_vars
    /\ [][(Lost # {} /\ runs' = runs) => trace' = trace]_vars
    /\ [](\A l \in Lost :
             (\A i \in 1..(Len(trace) - 1) : <<trace[i].ref, trace[i].step>> # l) =>
                 l[2] \notin StepNames(disk[l[1]]))
    /\ [](RunEnded /\ outcome = "returned" =>
             \A l \in prevLost :
                 l[2] \notin StepNames(diskPrev[l[1]]) =>
                     l \in Invoked(trace) \/ l[1] \in FailedRefs(trace))

\* A run was aborted by update_steps with raises false, and the next run has
\* invoked the step again and recorded its result.
C25_Witness ==
    /\ RunEnded /\ ~raises
    /\ \E l \in prevLost : l \in Succeeded(trace) /\ ResultRecorded(l)

---------------------------------------------------------------------------
(* C26: execute_pending on a pipeline in which no Source was registered fails    *)
(* with the error 'must initialize a source step' before any process is invoked  *)
(* and without writing any document.                                             *)

\* This transition is an execute_pending call.
Executes == runs' = runs + 1

C26_NoSourceError ==
    /\ [][(Executes /\ source = NoSource) =>
              /\ pc' = "done"
              /\ outcome' = "NotImplementedError"
              /\ SOURCE_ERROR.msg = "must initialize a source step"
              /\ trace' = <<>> /\ nsucc' = nsucc /\ pending' = pending
              /\ disk' = disk]_vars
    /\ []((pc = "done" /\ outcome = "NotImplementedError") =>
             (source = NoSource /\ trace = <<>> /\ pending = <<>>))

\* execute_pending has failed on a pipeline that has steps and no source.
C26_Witness ==
    /\ pc = "done" /\ outcome = "NotImplementedError"
    /\ steps # <<>> /\ source = NoSource
    /\ \A k \in Keys : disk[k] = NoDoc

---------------------------------------------------------------------------
(* C27: misordered dependency starves later steps. If step G, which fails        *)
(* whenever step T's result is absent from item.steps, is registered before T,   *)
(* then with raises false, for every item lacking T, G fails in every run and T  *)
(* is never invoked for that item in any run, so repeated runs make no progress  *)
(* on it.                                                                        *)

\* The pairs (g, t) of registry positions with a Grader of step t's name at g,
\* before t.
Misordered ==
    {p \in (1..Len(steps)) \X (1..Len(steps)) :
        /\ p[1] < p[2]
        /\ steps[p[1]].step.cls = "Grader"
        /\ steps[p[1]].step.step = steps[p[2]].name}

\* The keys of the snapshot whose document had no entry for name as the run started.
Lacking(name) == {nodes[n].ref : n \in {m \in 1..Len(nodes) : name \notin StepNames(diskPrev[nodes[m].ref])}}

\* C27 as stated, its first part: in a run that has ended, G has failed for every
\* item lacking T.
C27_GraderFailsEveryRun ==
    (RunEnded /\ outcome = "returned" /\ ~raises) =>
        \A p \in Misordered : \A k \in Lacking(steps[p[2]].name) :
            <<k, steps[p[1]].name>> \in Failures(trace)

\* C27 as amended: T is never invoked for an item lacking it, G never succeeds
\* for it, and when a run has ended the item has failed at G or before it and its
\* document still has neither result.
C27_Starved ==
    ~raises =>
        \A p \in Misordered :
            /\ \A i \in 1..Len(trace) :
                  trace[i].ref \in Lacking(steps[p[2]].name) =>
                      /\ trace[i].step # steps[p[2]].name
                      /\ trace[i].step = steps[p[1]].name => ~trace[i].ok
            /\ (RunEnded /\ outcome = "returned") =>
                  \A k \in Lacking(steps[p[2]].name) :
                      /\ \E f \in Failures(trace) :
                            f[1] = k /\ StepIx(f[2]) <= p[1]
                      /\ steps[p[2]].name \notin StepNames(disk[k])
                      /\ steps[p[1]].name \notin StepNames(disk[k])

\* The third run has ended: G has failed for an item in it as it had in the run
\* before, and the item's document has no result of T.
C27_Witness ==
    /\ RunEnded /\ outcome = "returned" /\ runs = MaxRuns
    /\ \E p \in Misordered : \E k \in Lacking(steps[p[2]].name) :
          /\ <<k, steps[p[1]].name>> \in Failures(trace)
          /\ <<k, steps[p[1]].name>> \in prevFailed
          /\ steps[p[2]].name \notin StepNames(disk[k])

---------------------------------------------------------------------------
(* C28: convergence. For a fixed item set and registry, if execute_pending is    *)
(* run repeatedly and every (item, step) pair fails only finitely often, then    *)
(* eventually every item's persisted document has every registered step          *)
(* recorded, and every run from then on invokes no process.                      *)

\* This transition is a process invocation that raises.
Failing == Invocation /\ ~LastOf(trace').ok

\* Every identifier of the table has a document with every registered step recorded.
Converged ==
    \A i \in 1..Len(origin) :
        /\ disk[origin[i].id].exists
        /\ \A s \in 1..Len(steps) : steps[s].name \in StepNames(disk[origin[i].id])

C28_Convergence ==
    (<>[][~Failing]_vars) => <>[](Converged /\ trace = <<>>)

\* A run has started on converged documents after an earlier run had failures.
C28_Witness ==
    /\ Converged /\ pc = "run" /\ trace = <<>> /\ Exhausted
    /\ runs = MaxRuns
    /\ \E f \in DOMAIN nsucc : nsucc[f] > 0

---------------------------------------------------------------------------
(* C29: Pipeline.collect (reporting) invokes no step's process and changes no    *)
(* existing persisted document; its only effect on the Item Store is whatever    *)
(* Source.collect does for keys that have no document yet.                       *)

TableCalls == {i \in 1..Len(calls) : calls[i].op = "table"}

C29_ReportingReadsOnly ==
    /\ trace = <<>> /\ nsucc = <<>> /\ pending = <<>>
    /\ \A i \in TableCalls : \A k \in Keys :
          IF calls[i].before[k].exists
          THEN Fred(After(i)[k]) = Fred(calls[i].before[k])
          ELSE After(i)[k] \in {calls[i].before[k],
                                CsvCollect(calls[i].before, origin).store[k]}

\* Pipeline.collect has left the recorded document of one key as it was and has
\* created the document of another through the Source.
C29_Witness ==
    \E i \in TableCalls : \E k, m \in Keys :
        /\ calls[i].before[k].exists /\ calls[i].before[k].steps # <<>>
        /\ After(i)[k] = calls[i].before[k]
        /\ ~calls[i].before[m].exists /\ After(i)[m].exists

---------------------------------------------------------------------------
(* C30: the pipeline has exactly one active Source at any time: after add_step   *)
(* registers Source s1 and later Source s2, execute_pending takes its item       *)
(* snapshot only from s2 and persists only through s2, and s1 takes no further   *)
(* part in execution.                                                            *)

\* The registry positions that hold the Source object which is not the source.
Superseded ==
    {i \in 1..Len(steps) : IsSource(steps[i].step) /\ steps[i].step.dest = standby.id}

---------------------------------------------------------------------------
(* C31: the first time a Source (PRs or CSV) encounters a key that has no        *)
(* document, the document it creates has an empty steps mapping.                 *)

\* The keys whose document the i-th call has created.
Created(i) == {k \in Keys : ~calls[i].before[k].exists /\ After(i)[k].exists}

\* C31 as stated: a document a collect call has created has no steps entry.
C31_CreatedWithEmptySteps ==
    \A i \in CollectCalls : \A k \in Created(i) : After(i)[k].steps = <<>>

\* C31 as amended: a document CSV.collect has created has no steps entry; one
\* PRs.collect has created has the single entry 'download', which holds the pull
\* request's data.
C31_CreatedSteps ==
    \A i \in CollectCalls : \A k \in Created(i) :
        IF calls[i].op = "csv"
        THEN After(i)[k].steps = <<>>
        ELSE /\ StepNames(After(i)[k]) = {<<"download">>}
             /\ After(i)[k].steps[<<"download">>] = After(i)[k].row

\* A CSV collect and a PRs collect have each created a document.
C31_Witness ==
    /\ Len(calls) = 2
    /\ \E i, j \in CollectCalls :
          /\ calls[i].op = "csv" /\ Created(i) # {}
          /\ calls[j].op = "prs" /\ Created(j) # {}

---------------------------------------------------------------------------
(* C32: PRs.collect yields every key at most once per invocation, also across    *)
(* repeated collect calls on the same PRs object: a PR whose document is newer   *)
(* than the refresh deadline is not re-fetched and is yielded from its persisted *)
(* document, and it is never also yielded as a freshly fetched item (documents   *)
(* are never deleted and their modification time never decreases).               *)

\* The last call was PRs.collect; nodes holds what it has yielded.
PrsYielded == calls # <<>> /\ LastOf(calls).op = "prs"

C32_PrsYieldsOnce ==
    PrsYielded =>
        /\ \A n, m \in 1..Len(nodes) : nodes[n].ref = nodes[m].ref => n = m
        /\ \A n \in 1..Len(nodes) :
              LET k == nodes[n].ref
                  old == LastOf(calls).before[k]
              IN  /\ (old.exists /\ old.fresh) => (k \in skip /\ disk[k] = old)
                  /\ k \in skip => (old.exists /\ old.fresh /\ nodes[n].item = Item(old))
        /\ LastOf(calls).err.cls = "none" => \A k \in skip : NodesOf(k) # {}

\* The second PRs.collect on the object has returned: a key it fetched the first
\* time is now yielded from its document, with another key fetched this time.
C32_Witness ==
    /\ Len(calls) = 2 /\ PrsYielded /\ calls[1].op = "prs"
    /\ calls[1].err.cls = "none" /\ calls[2].err.cls = "none"
    /\ \E k \in skip : ~calls[1].before[k].exists /\ NodesOf(k) # {}
    /\ \E n \in 1..Len(nodes) : nodes[n].ref \notin skip

---------------------------------------------------------------------------
(* C33: IncludeFiles.process is idempotent on the filesystem: with unchanged     *)
(* reference files, a second invocation on the same item (for either value of    *)
(* overwrite) writes no file and returns an empty 'files' list, leaving the      *)
(* item's path exactly as the first invocation left it.                          *)

\* The directories the i-th call left.
FilesAfter(i) == IF i = Len(calls) THEN fs ELSE calls[i + 1].before

\* A call after the first writes and warns of nothing and leaves the path as it
\* found it; it returns the empty list when the first call returned, and raises
\* as the first did when that one raised.
C33_IncludeIdempotent ==
    \A i \in 2..Len(calls) :
        /\ FilesAfter(i).path = calls[i].before.path
        /\ calls[i].before.path = FilesAfter(1).path
        /\ calls[i].files = <<>> /\ calls[i].warned = <<>>
        /\ calls[i].err = calls[1].err

\* The first invocation wrote a file and returned, and a second has returned.
C33_Witness ==
    /\ Len(calls) = 2
    /\ calls[1].err = "none" /\ calls[1].files # <<>>
    /\ calls[2].err = "none" /\ calls[2].files = <<>>

---------------------------------------------------------------------------
(* C34: IncludeFiles overwrite flag. A listed file missing from the item's path  *)
(* is always copied; an existing file that differs from the reference is         *)
(* replaced (with a warning) when overwrite is true and left untouched when      *)
(* overwrite is false; an existing identical file is never rewritten; the        *)
(* returned 'files' list holds exactly the files written, so with overwrite true *)
(* every listed file equals its reference after a successful process.            *)

Elems(seq) == {seq[i] : i \in 1..Len(seq)}

IncludeCalls == {i \in 1..Len(calls) : calls[i].op = "include"}

C34_OverwriteFlag ==
    \A i \in IncludeCalls :
        LET c == calls[i]
            old == c.before.path
            ref == c.before.ref
            new == FilesAfter(i).path
            listed == Elems(steps[1].step.files)
            overwrite == steps[1].step.overwrite
        IN  /\ FilesAfter(i).ref = ref
            /\ \A f \in FileNames \ listed : new[f] = old[f]
            /\ Elems(c.files) = {f \in FileNames : new[f] # old[f]}
            /\ Len(c.files) = Cardinality(Elems(c.files))
            /\ Elems(c.warned) = {f \in Elems(c.files) : old[f] # Absent}
            /\ \A f \in Elems(c.files) : new[f] = ref[f]
            /\ \A f \in listed : old[f] = ref[f] => f \notin Elems(c.files)
            /\ c.err = "none" =>
                  \A f \in listed :
                      /\ old[f] = Absent => (new[f] = ref[f] /\ f \in Elems(c.files))
                      /\ (old[f] # Absent /\ old[f] # ref[f]) =>
                            IF overwrite
                            THEN new[f] = ref[f] /\ f \in Elems(c.warned)
                            ELSE new[f] = old[f]
                      /\ overwrite => new[f] = ref[f]
            /\ c.err # "none" => \E f \in listed : ref[f] = Absent

\* A process with overwrite set has returned after copying a missing file and
\* replacing, with a warning, one that differed.
C34_Witness ==
    /\ calls # <<>> /\ calls[1].err = "none"
    /\ steps[1].step.overwrite
    /\ Len(calls[1].files) = 2 /\ Len(calls[1].warned) = 1
    /\ \A f \in FileNames : FilesAfter(1).path[f] = calls[1].before.ref[f]

---------------------------------------------------------------------------
(* C35: missing dependency. Grader.process and Competencies.process fail when    *)
(* the prior step they name is absent from item.steps; run under execute_pending *)
(* the failure records nothing for that step and blacklists the item for the     *)
(* run.                                                                          *)

\* The generator is about to invoke a Grader or a Competencies on an item that
\* lacks the step it names.
DependencyMissing ==
    /\ pc = "run" /\ CanResume(pending) /\ ~Exhausted
    /\ ~Skips(blacklist, CurNode.ref, CurStep.name, CurNode.item)
    /\ Dependent(CurStep.step)
    /\ CurStep.step.step \notin StepNames(CurNode.item)

C35_MissingDependency ==
    /\ [][(DependencyMissing /\ pos' # pos) => Invocation]_vars
    /\ [][(DependencyMissing /\ Invocation) =>
              /\ ~LastOf(trace').ok
              /\ LastOf(log').cls = "KeyError" /\ Len(log') = Len(log) + 1
              /\ CurNode.ref \in blacklist'
              /\ nodes' = nodes /\ disk' = disk /\ pending' = <<>>
              /\ nsucc' = nsucc]_vars
    /\ [](pc \in {"run", "done"} =>
             \A i \in 1..Len(trace) :
                 (Dependent(StepOf(i)) /\ StepOf(i).step \notin StepNames(nodes[trace[i].ix].item)) =>
                     /\ ~trace[i].ok
                     /\ trace[i].ref \in blacklist
                     /\ trace[i].step \notin StepNames(disk[trace[i].ref])
                     /\ \A j \in (i + 1)..Len(trace) : trace[j].ref # trace[i].ref)

\* A run has ended in which a Competencies failed for an item that lacked the
\* step it names, and the steps after it ran for another item only.
C35_Witness ==
    /\ RunEnded /\ outcome = "returned"
    /\ \E i \in 1..Len(trace) :
          /\ StepOf(i).cls = "Competencies" /\ ~trace[i].ok
          /\ trace[i].ref \in blacklist
          /\ \E j \in (i + 1)..Len(trace) : trace[j].ref # trace[i].ref

---------------------------------------------------------------------------
(* C36: zero tests. When the recorded Pytest result has summary total 0 (passed  *)
(* and failed both default to 0 and total defaults to passed + failed), Grader   *)
(* with the default passed/total reduction fails instead of recording a grade,   *)
(* so under execute_pending the item is blacklisted at the grade step in every   *)
(* run and never obtains a grade.                                                *)

TestStep == <<"t">>
GradeStep == <<"g">>

\* The document holds a Pytest result without tests.
ZeroTests(doc) ==
    doc.exists /\ TestStep \in StepNames(doc) /\ doc.steps[TestStep].summary.total = 0

\* The keys of the snapshot whose document held a Pytest result without tests and
\* no grade as the run started.
Ungradable ==
    {nodes[n].ref : n \in {m \in 1..Len(nodes) :
        ZeroTests(diskPrev[nodes[m].ref]) /\ GradeStep \notin StepNames(diskPrev[nodes[m].ref])}}

---------------------------------------------------------------------------
(* C37 *)

SchoolStep == steps[1].step

SchoolCalls == {i \in 1..Len(calls) : calls[i].op = "school"}

\* The raw reference: the item's value at the dotted path.
Raw == GetRef(SchoolStep, nodes[1].item)

\* The dotted path leads to a number of the item.
Resolved == Raw.err = "none" /\ Raw.node.leaf

\* A filename is configured and the file exists in the item's path.
Designated == SchoolStep.filename # NoFile /\ fs[SchoolStep.filename].exists

KnownExt == \E e \in {<<".", "py">>, <<".", "json">>, <<".", "fred">>} :
        EndsWith(SchoolStep.filename, e)

\* The designated file parses and holds the named field.
Readable ==
    /\ Designated
    /\ fs[SchoolStep.filename].well
    /\ Contains(fs[SchoolStep.filename].ns, SchoolStep.field)

FileField == At(fs[SchoolStep.filename].ns, SchoolStep.field)

InTable == Contains(SchoolStep.db, Raw.node.val)

ParseErrors == {"SyntaxError", "JSONDecodeError", "FredError", "KeyError"}

\* C37 as stated: for a raw reference read from the item, a designated file with
\* an unknown extension makes process fail; otherwise the result is transform(v)
\* with v the lookup table's entry for the raw reference if there is one, else
\* the named field of the designated file, else the raw reference.
C37_TableEntryFirst ==
    \A i \in SchoolCalls :
        Resolved =>
            IF Designated /\ ~KnownExt THEN calls[i].err # "none"
            ELSE IF InTable
            THEN /\ calls[i].err = "none"
                 /\ calls[i].val = Transform(SchoolStep.transform,
                                             At(SchoolStep.db, Raw.node.val))
            ELSE IF Designated
            THEN Readable =>
                    /\ calls[i].err = "none"
                    /\ calls[i].val = Transform(SchoolStep.transform, FileField)
            ELSE /\ calls[i].err = "none"
                 /\ calls[i].val = Transform(SchoolStep.transform, Raw.node.val)

\* C37: SchoolId.process reads the raw reference from the item by dotted path
\* and fails as that lookup fails; a designated file that exists makes it fail
\* with ValueError for an unknown extension and with the parser's error or
\* KeyError when it does not parse or lacks the named field, whether or not the
\* lookup table has an entry; an absent file never makes it fail; otherwise the
\* result is transform(v) with v the table's entry for the raw reference if
\* there is one, else the field parsed from the designated file if a filename is
\* configured and the file exists, else the raw reference.
C37_Resolution ==
    \A i \in SchoolCalls :
        /\ Raw.err # "none" => calls[i].err = Raw.err
        /\ Raw.err = "none" =>
              IF Designated /\ ~KnownExt THEN calls[i].err = "ValueError"
              ELSE IF Designated /\ ~Readable THEN calls[i].err \in ParseErrors
              ELSE IF ~Raw.node.leaf THEN calls[i].err = "TypeError"
              ELSE /\ calls[i].err = "none"
                   /\ calls[i].val =
                         Transform(SchoolStep.transform,
                                   IF InTable THEN At(SchoolStep.db, Raw.node.val)
                                   ELSE IF Designated THEN FileField
                                   ELSE Raw.node.val)
        /\ (/\ SchoolStep.ref = <<"user", ".", "id">>
            /\ Contains(nodes[1].item.kids, <<"id">>)
            /\ ~Designated
            /\ SchoolStep.transform = "identity")
           => /\ calls[i].err = "none"
              /\ calls[i].val = IF SchoolStep.db = {<<1, 50>>} THEN 50 ELSE 1

\* process has been called for an item whose raw reference has a table entry
\* while the designated file, of a known extension, lacks the named field.
C37_Witness ==
    /\ SchoolCalls # {}
    /\ Resolved
    /\ InTable
    /\ Designated
    /\ KnownExt
    /\ fs[SchoolStep.filename].well
    /\ ~Readable
    /\ calls[1].err = "KeyError"

====
